---- MODULE Spec2Model ----
(***************************************************************************)
(* Validation & Commit Engine of aurora-ibn                                *)
(* (src/src/core/validation_engine.py, class ValidationEngine) together    *)
(* with the NETCONF/gNMI clients seen at their interface                   *)
(* (src/src/core/netconf_client.py, src/src/core/gnmi_client.py).          *)
(*                                                                         *)
(* The engine's coroutines run on one asyncio event loop: a coroutine      *)
(* runs without interruption from one network await to the next.  Every    *)
(* action below is one such uninterrupted stretch: it consumes the         *)
(* outcome of the network operation the coroutine was waiting for and      *)
(* runs the code up to the next network await (or the return).             *)
(***************************************************************************)
EXTENDS Integers, Sequences, FiniteSets, TLC

----------------------------------------------------------------------------
(* Bounds of the model *)

\* the clock runs from 0 to MaxTime (minutes)
MaxTime == 2
\* longest payload list / target list handed to one call
MaxPayloads == 2
\* timeout_minutes is drawn from 1..MaxTimeout
MaxTimeout == 2

Targets == {"d1", "d2"}

\* models/base.py Transport (enum NETCONF | RESTCONF | GNMI, spec section 3)
Transports == {"NETCONF", "GNMI", "RESTCONF"}

\* callers that may have a coroutine of the engine in flight
Procs == {1, 2}
\* the single caller of the sequential specification
SeqProcs == {1}

----------------------------------------------------------------------------
VARIABLES
    active_commits, \* ValidationEngine.active_commits: dict target -> entry
    now,            \* datetime.now(), in minutes
    call,           \* per caller: the coroutine it runs and the arguments
    pc,             \* per caller: the await the coroutine is suspended at
    idx,            \* per caller: position of the for loop (1-based)
    results,        \* per caller: the local list `results`
    pending,        \* per caller: value being returned/raised through `async with`
    sess,           \* history: the device sessions opened by the call, with their RPCs
    reg0,           \* history: active_commits when the call started
    swept           \* history: the targets the last cleanup_expired_commits warned about

\* the variables of the Validation & Commit Engine
evars == <<active_commits, now, call, pc, idx, results, pending, sess, reg0, swept>>

VARIABLES
    inventory,      \* discover_models: the inventory argument
    intent,         \* discover_models: the intent argument
    tasks,          \* per device: the coroutine _discover_device_models and its locals
    dpc,            \* discover_models: idle, waiting in gather, returned
    valid_results,  \* discover_models: the list returned
    cache,          \* ModelCache.models: the keys of the cache index
    yang_files,     \* the files <key>.yang of the cache directory, with their mtime (day)
    today,          \* datetime.now(), in days
    put_day,        \* history: the day of the last ModelCache.put of a key that was written
    gnmi_pb2,       \* whether the gnmi protobuf modules could be imported
    budget          \* bound: the required models the calls still to come may have

\* the variables of the Model Discovery Engine
dvars == <<inventory, intent, tasks, dpc, valid_results, cache, yang_files, today,
           put_day, gnmi_pb2, budget>>

VARIABLES
    risk_call,      \* _assess_risks: the arguments (intent, inventory, policy)
    risk_pc,        \* _assess_risks: the statement the function is at
    level,          \* _assess_risks: the local `level`
    factors,        \* _assess_risks: the local `factors`
    mitigations,    \* _assess_risks: the local `mitigations`
    risk_assessment \* _assess_risks: the RiskAssessment returned

\* the variables of the risk assessment
rvars == <<risk_call, risk_pc, level, factors, mitigations, risk_assessment>>

VARIABLES
    unit_call,      \* a direct call of one function: its name and arguments
    unit_result     \* the value that call returned

\* the variables of the direct function calls
uvars == <<unit_call, unit_result>>

VARIABLES
    pipe_call,      \* process_intent: the arguments and what its collaborators do
    pipe_pc,        \* process_intent: the stage it is at
    pipe_locals,    \* process_intent: the locals assigned so far
    pipe_response   \* process_intent: the string returned

\* the variables of the pipeline
pvars == <<pipe_call, pipe_pc, pipe_locals, pipe_response>>

VARIABLES
    client_op,      \* NetconfClient: the operation that uses the client
    client_pc,      \* NetconfClient: where the `async with client` block is
    conn,           \* NetconfClient.conn: the SSH connection
    session,        \* NetconfClient.session: the NETCONF session on it
    client_rpcs,    \* the results of the RPCs sent in the block
    client_exit     \* how the block was left

\* the variables of the transport client
cvars == <<client_op, client_pc, conn, session, client_rpcs, client_exit>>

vars == <<evars, dvars, rvars, uvars, pvars, cvars>>

\* what the steps of one component leave alone
notEngine == <<dvars, rvars, uvars, pvars, cvars>>
notDiscovery == <<evars, rvars, uvars, pvars, cvars>>
notRisk == <<evars, dvars, uvars, pvars, cvars>>
notUnit == <<evars, dvars, rvars, pvars, cvars>>
notPipe == <<evars, dvars, rvars, uvars, cvars>>
notClient == <<evars, dvars, rvars, uvars, pvars>>

----------------------------------------------------------------------------
(* Values *)

None == "None"

\* CandidatePayload reduced to the fields the engine reads
PayloadSet == [target : Targets, transport : Transports]

SeqsUpTo(S, n) == UNION {[1..k -> S] : k \in 0..n}

PayloadLists == SeqsUpTo(PayloadSet, MaxPayloads)

\* a transport value that is no member of Transport: CandidatePayload is a
\* dataclass and does not check the field
UnsupportedTransport == "OTHER"

\* the payloads handed to validate_configuration
ValidationPayloadSet == PayloadSet \cup [target : Targets, transport : {UnsupportedTransport}]
ValidationPayloadLists == SeqsUpTo(ValidationPayloadSet, MaxPayloads)
TargetLists == SeqsUpTo(Targets, MaxPayloads)
TimeoutChoices == 1..MaxTimeout

\* Optional[List[str]]: given = FALSE is None
DeviceTargetArgs == {[given |-> FALSE, list |-> <<>>]}
                      \cup {[given |-> TRUE, list |-> l] : l \in TargetLists}

EmptyRegistry == [t \in {} |-> None]

NoCommitId == [kind |-> None, at |-> 0]

NoCall == [op |-> "idle", payloads |-> <<>>, device_targets |-> [given |-> FALSE, list |-> <<>>],
           targets |-> <<>>, confirmed |-> FALSE, timeout_minutes |-> 0, dry_run |-> FALSE]

Set(f, p, v) == [f EXCEPT ![p] = v]

\* dict operations
DictDel(ac, t) == [x \in DOMAIN ac \ {t} |-> ac[x]]
DictPut(ac, t, e) == [x \in DOMAIN ac \cup {t} |-> IF x = t THEN e ELSE ac[x]]

\* list(d.keys()): the keys in insertion order; the model does not track the
\* insertion order and allows every enumeration of the keys.
KeyLists(ac) ==
    {s \in [1..Cardinality(DOMAIN ac) -> DOMAIN ac] :
        \A a, b \in DOMAIN s : a # b => s[a] # s[b]}

\* session history
OpenSession(s, i, t, ok) ==
    Append(s, [item |-> i, device |-> t, connected |-> ok, rpcs |-> <<>>])
AddRpc(s, name, arg, ok) ==
    [s EXCEPT ![Len(s)].rpcs = Append(@, [rpc |-> name, arg |-> arg, ok |-> ok])]

----------------------------------------------------------------------------
(* Results *)

CommitResult(s, d, cid, err) ==
    [success |-> s, device |-> d, commit_id |-> cid, error_message |-> err]

ValidationResult(s, prefix, t, details) ==
    [success |-> s, test_name |-> [prefix |-> prefix, target |-> t], details |-> details]

\* f"commit_{datetime.now().strftime('%Y%m%d_%H%M%S')}"
commit_id_now == [kind |-> "commit", at |-> now]

\* the state a coroutine continues in after a stretch of code
Cont(nextpc, i, res, ac) ==
    [pc |-> nextpc, idx |-> i, results |-> res, active_commits |-> ac]

Resume(p, a) ==
    /\ pc' = Set(pc, p, a.pc)
    /\ idx' = Set(idx, p, a.idx)
    /\ results' = Set(results, p, a.results)
    /\ active_commits' = a.active_commits

Target(p) ==
    IF call[p].op \in {"commit_configurations", "validate_configuration"}
    THEN call[p].payloads[idx[p]].target
    ELSE call[p].targets[idx[p]]

----------------------------------------------------------------------------
(* commit_configurations *)

commit_gnmi_config(payload) ==
    CommitResult(TRUE, payload.target, [kind |-> "gnmi_immediate", at |-> 0], None)

\* the branches of _commit_device_config that contact no device
commit_device_config(payload) ==
    IF payload.transport = "GNMI"
    THEN commit_gnmi_config(payload)
    ELSE CommitResult(FALSE, payload.target, NoCommitId, "Unsupported transport for commit")

\* faulty variant: an unconfirmed commit is registered too
should_register_any(confirmed, result) == result.success

should_register(confirmed, result) == confirmed /\ result.success

new_entry(result, payload, timeout_minutes) ==
    [commit_id |-> result.commit_id,
     timeout |-> now + timeout_minutes,
     payload |-> payload]

register(c, payload, result, ac) ==
    IF should_register(c.confirmed, result)
    THEN DictPut(ac, payload.target, new_entry(result, payload, c.timeout_minutes))
    ELSE ac

\* the for loop of commit_configurations from payload i on, up to the next
\* payload that needs a NETCONF session, or to the return
RECURSIVE commit_advance(_, _, _, _)
commit_advance(c, i, res, ac) ==
    IF i > Len(c.payloads) THEN Cont("done", i, res, ac)
    ELSE IF c.payloads[i].transport = "NETCONF" THEN Cont("connect", i, res, ac)
    ELSE LET r == commit_device_config(c.payloads[i])
         IN commit_advance(c, i + 1, Append(res, r), register(c, c.payloads[i], r, ac))

\* faulty variant: the first failed payload ends the loop
commit_finish_stops(c, i, r, res, ac) ==
    IF r.success
    THEN commit_advance(c, i + 1, Append(res, r), register(c, c.payloads[i], r, ac))
    ELSE Cont("done", i + 1, Append(res, r), ac)

\* payload i got its CommitResult r: lines 367-374, then the loop goes on
commit_finish(c, i, r, res, ac) ==
    commit_advance(c, i + 1, Append(res, r), register(c, c.payloads[i], r, ac))

\* the call, up to its first network await
call_commit_configurations(p, pls, cf, tm) ==
    /\ pc[p] = "idle"
    /\ LET c == [NoCall EXCEPT !.op = "commit_configurations", !.payloads = pls,
                               !.confirmed = cf, !.timeout_minutes = tm]
       IN /\ call' = Set(call, p, c)
          /\ Resume(p, commit_advance(c, 1, <<>>, active_commits))
    /\ sess' = Set(sess, p, <<>>)
    /\ pending' = Set(pending, p, <<>>)
    /\ reg0' = Set(reg0, p, active_commits)
    /\ swept' = {}
    /\ UNCHANGED now

start_commit_configurations(p) ==
    \E pls \in PayloadLists, cf \in BOOLEAN, tm \in TimeoutChoices :
        call_commit_configurations(p, pls, cf, tm)

\* `async with client` of _commit_netconf_config: connect() returned or raised
commit_connect(p) ==
    /\ call[p].op = "commit_configurations" /\ pc[p] = "connect"
    /\ \E ok \in BOOLEAN :
         /\ sess' = Set(sess, p, OpenSession(sess[p], idx[p], Target(p), ok))
         /\ IF ok
            THEN /\ pc' = Set(pc, p, "edit_config")
                 /\ UNCHANGED <<idx, results, active_commits>>
            ELSE Resume(p, commit_finish(call[p], idx[p],
                     CommitResult(FALSE, Target(p), NoCommitId, "NETCONF commit error"),
                     results[p], active_commits))
    /\ UNCHANGED <<now, call, pending, reg0, swept>>

\* faulty variant: a failed edit-config is followed by discard-changes
after_edit_config_discards(ok) == IF ok THEN "validate" ELSE "discard_changes"

after_edit_config(ok) == IF ok THEN "validate" ELSE "disconnect"

commit_edit_config(p) ==
    /\ call[p].op = "commit_configurations" /\ pc[p] = "edit_config"
    /\ \E ok \in BOOLEAN :
         /\ sess' = Set(sess, p, AddRpc(sess[p], "edit_config", "candidate", ok))
         /\ pc' = Set(pc, p, after_edit_config(ok))
         /\ pending' = Set(pending, p,
               IF ok THEN <<>>
               ELSE <<CommitResult(FALSE, Target(p), NoCommitId,
                                   "Failed to edit candidate configuration")>>)
    /\ UNCHANGED <<active_commits, now, call, idx, results, reg0, swept>>

\* faulty variant: the result of validate is not looked at
after_validate_unchecked(ok) == "commit"

after_validate(ok) == IF ok THEN "commit" ELSE "discard_changes"

commit_validate(p) ==
    /\ call[p].op = "commit_configurations" /\ pc[p] = "validate"
    /\ \E ok \in BOOLEAN :
         /\ sess' = Set(sess, p, AddRpc(sess[p], "validate", "candidate", ok))
         /\ pc' = Set(pc, p, after_validate(ok))
    /\ UNCHANGED <<active_commits, now, call, idx, results, pending, reg0, swept>>

commit_discard_changes(p) ==
    /\ call[p].op = "commit_configurations" /\ pc[p] = "discard_changes"
    /\ \E ok \in BOOLEAN :
         sess' = Set(sess, p, AddRpc(sess[p], "discard_changes", "", ok))
    /\ pending' = Set(pending, p,
          <<CommitResult(FALSE, Target(p), NoCommitId, "Configuration validation failed")>>)
    /\ pc' = Set(pc, p, "disconnect")
    /\ UNCHANGED <<active_commits, now, call, idx, results, reg0, swept>>

commit_arg(confirmed) == IF confirmed THEN "confirmed=True" ELSE "confirmed=False"

commit_outcome(ok, t) ==
    IF ok THEN CommitResult(TRUE, t, commit_id_now, None)
    ELSE CommitResult(FALSE, t, NoCommitId, "Commit operation failed")

commit_commit(p) ==
    /\ call[p].op = "commit_configurations" /\ pc[p] = "commit"
    /\ \E ok \in BOOLEAN :
         /\ sess' = Set(sess, p, AddRpc(sess[p], "commit", commit_arg(call[p].confirmed), ok))
         /\ pending' = Set(pending, p, <<commit_outcome(ok, Target(p))>>)
    /\ pc' = Set(pc, p, "disconnect")
    /\ UNCHANGED <<active_commits, now, call, idx, results, reg0, swept>>

\* __aexit__ done: _commit_netconf_config returns to commit_configurations
commit_disconnect(p) ==
    /\ call[p].op = "commit_configurations" /\ pc[p] = "disconnect"
    /\ Resume(p, commit_finish(call[p], idx[p], pending[p][1], results[p], active_commits))
    /\ pending' = Set(pending, p, <<>>)
    /\ UNCHANGED <<now, call, sess, reg0, swept>>

----------------------------------------------------------------------------
(* confirm_commits *)

\* faulty variant: only an omitted list stands for the registry's targets
default_targets_if_none(dt, ac) ==
    IF dt.given THEN {dt.list} ELSE KeyLists(ac)

\* targets = device_targets or list(self.active_commits.keys())
default_targets(dt, ac) ==
    IF dt.given /\ dt.list # <<>> THEN {dt.list} ELSE KeyLists(ac)

\* the for loop of confirm_commits from target i on: targets without a
\* registry entry are passed over, up to the next one that has an entry
RECURSIVE confirm_advance(_, _, _, _)
confirm_advance(c, i, res, ac) ==
    IF i > Len(c.targets) THEN Cont("done", i, res, ac)
    ELSE IF c.targets[i] \in DOMAIN ac THEN Cont("connect", i, res, ac)
    ELSE confirm_advance(c, i + 1, res, ac)

call_confirm_commits(p, dt) ==
    /\ pc[p] = "idle"
    /\ \E ts \in default_targets(dt, active_commits) :
         LET c == [NoCall EXCEPT !.op = "confirm_commits", !.device_targets = dt,
                                 !.targets = ts]
         IN /\ call' = Set(call, p, c)
            /\ Resume(p, confirm_advance(c, 1, <<>>, active_commits))
    /\ sess' = Set(sess, p, <<>>)
    /\ pending' = Set(pending, p, <<>>)
    /\ reg0' = Set(reg0, p, active_commits)
    /\ swept' = {}
    /\ UNCHANGED now

start_confirm_commits(p) ==
    \E dt \in DeviceTargetArgs : call_confirm_commits(p, dt)

confirm_connect(p) ==
    /\ call[p].op = "confirm_commits" /\ pc[p] = "connect"
    /\ \E ok \in BOOLEAN :
         /\ sess' = Set(sess, p, OpenSession(sess[p], idx[p], Target(p), ok))
         /\ IF ok
            THEN /\ pc' = Set(pc, p, "commit")
                 /\ UNCHANGED <<idx, results, active_commits>>
            ELSE Resume(p, confirm_advance(call[p], idx[p] + 1,
                     Append(results[p],
                            CommitResult(FALSE, Target(p), NoCommitId, "Confirm commit error")),
                     active_commits))
    /\ UNCHANGED <<now, call, pending, reg0, swept>>

\* faulty variant: the entry is deleted whatever the commit RPC returned
confirm_remove_always(ac, t, ok) == IF t \in DOMAIN ac THEN DictDel(ac, t) ELSE ac

\* lines 500-516: commit(confirmed=False) returned.  `del` of a key that is
\* gone raises KeyError, which leaves the `async with` and is reported by the
\* except clause once __aexit__ is done.
\* the registry after commit(confirmed=False) returned `ok` (lines 502-503)
confirm_remove(ac, t, ok) == IF ok /\ t \in DOMAIN ac THEN DictDel(ac, t) ELSE ac

confirm_commit(p) ==
    /\ call[p].op = "confirm_commits" /\ pc[p] = "commit"
    /\ \E ok \in BOOLEAN :
         /\ sess' = Set(sess, p, AddRpc(sess[p], "commit", commit_arg(FALSE), ok))
         /\ active_commits' = confirm_remove(active_commits, Target(p), ok)
         /\ IF ok
            THEN IF Target(p) \in DOMAIN active_commits
                 THEN /\ results' = Set(results, p, Append(results[p],
                            CommitResult(TRUE, Target(p), [kind |-> "confirmed", at |-> 0], None)))
                      /\ pending' = Set(pending, p, <<>>)
                 ELSE /\ pending' = Set(pending, p,
                            <<CommitResult(FALSE, Target(p), NoCommitId, "Confirm commit error")>>)
                      /\ UNCHANGED results
            ELSE /\ results' = Set(results, p, Append(results[p],
                       CommitResult(FALSE, Target(p), NoCommitId, "Failed to confirm commit")))
                 /\ pending' = Set(pending, p, <<>>)
    /\ pc' = Set(pc, p, "disconnect")
    /\ UNCHANGED <<now, call, idx, reg0, swept>>

confirm_disconnect(p) ==
    /\ call[p].op = "confirm_commits" /\ pc[p] = "disconnect"
    /\ Resume(p, confirm_advance(call[p], idx[p] + 1, results[p] \o pending[p], active_commits))
    /\ pending' = Set(pending, p, <<>>)
    /\ UNCHANGED <<now, call, sess, reg0, swept>>

----------------------------------------------------------------------------
(* rollback_configurations *)

rollback_advance(c, i, res, ac) ==
    IF i > Len(c.targets) THEN Cont("done", i, res, ac) ELSE Cont("connect", i, res, ac)

call_rollback_configurations(p, dt) ==
    /\ pc[p] = "idle"
    /\ \E ts \in default_targets(dt, active_commits) :
         LET c == [NoCall EXCEPT !.op = "rollback_configurations", !.device_targets = dt,
                                 !.targets = ts]
         IN /\ call' = Set(call, p, c)
            /\ Resume(p, rollback_advance(c, 1, <<>>, active_commits))
    /\ sess' = Set(sess, p, <<>>)
    /\ pending' = Set(pending, p, <<>>)
    /\ reg0' = Set(reg0, p, active_commits)
    /\ swept' = {}
    /\ UNCHANGED now

start_rollback_configurations(p) ==
    \E dt \in DeviceTargetArgs : call_rollback_configurations(p, dt)

\* the registry after `async with client` could not be entered (lines 558-564)
rollback_connect_failed(ac, t) == ac

rollback_connect(p) ==
    /\ call[p].op = "rollback_configurations" /\ pc[p] = "connect"
    /\ \E ok \in BOOLEAN :
         /\ sess' = Set(sess, p, OpenSession(sess[p], idx[p], Target(p), ok))
         /\ IF ok
            THEN /\ pc' = Set(pc, p, "discard_changes")
                 /\ UNCHANGED <<idx, results, active_commits>>
            ELSE Resume(p, rollback_advance(call[p], idx[p] + 1,
                     Append(results[p],
                            CommitResult(FALSE, Target(p), NoCommitId, "Rollback error")),
                     rollback_connect_failed(active_commits, Target(p))))
    /\ UNCHANGED <<now, call, pending, reg0, swept>>

\* the registry after discard_changes() returned `ok` (lines 545-548)
rollback_remove(ac, t, ok) == IF t \in DOMAIN ac THEN DictDel(ac, t) ELSE ac

rollback_discard_changes(p) ==
    /\ call[p].op = "rollback_configurations" /\ pc[p] = "discard_changes"
    /\ \E ok \in BOOLEAN :
         /\ sess' = Set(sess, p, AddRpc(sess[p], "discard_changes", "", ok))
         /\ active_commits' = rollback_remove(active_commits, Target(p), ok)
         /\ results' = Set(results, p, Append(results[p],
               CommitResult(ok, Target(p), [kind |-> "rollback", at |-> 0],
                            IF ok THEN None ELSE "Rollback failed")))
    /\ pc' = Set(pc, p, "disconnect")
    /\ UNCHANGED <<now, call, idx, pending, reg0, swept>>

rollback_disconnect(p) ==
    /\ call[p].op = "rollback_configurations" /\ pc[p] = "disconnect"
    /\ Resume(p, rollback_advance(call[p], idx[p] + 1, results[p], active_commits))
    /\ UNCHANGED <<now, call, pending, sess, reg0, swept>>

----------------------------------------------------------------------------
(* validate_configuration *)

validate_restconf_payload(payload) ==
    ValidationResult(TRUE, "RESTCONF validation for", payload.target,
                     "RESTCONF validation not implemented yet")

\* the for loop of validate_configuration from payload i on, up to the next
\* payload that opens a NETCONF or gNMI session, or to the return
\* validate_configuration, the else branch (lines 228-234)
validate_unsupported(payload) ==
    ValidationResult(FALSE, "Validation for", payload.target, "Unsupported transport")

\* the branches of validate_configuration that contact no device
validate_offline(payload) ==
    IF payload.transport = "RESTCONF"
    THEN validate_restconf_payload(payload)
    ELSE validate_unsupported(payload)

\* faulty variant: the loop ends at the first payload whose validation failed
validate_next_stops(c, i, res) ==
    IF res[Len(res)].success THEN i + 1 ELSE Len(c.payloads) + 1

\* the for loop goes on with the next payload whatever the result of payload i
\* (the last of res) was: both the try and the except end the iteration
validate_next(c, i, res) == i + 1

RECURSIVE validate_advance(_, _, _, _)
validate_advance(c, i, res, ac) ==
    IF i > Len(c.payloads) THEN Cont("done", i, res, ac)
    ELSE IF c.payloads[i].transport \in {"NETCONF", "GNMI"} THEN Cont("connect", i, res, ac)
    ELSE LET r == Append(res, validate_offline(c.payloads[i]))
         IN validate_advance(c, validate_next(c, i, r), r, ac)

start_validate_configuration(p) ==
    /\ pc[p] = "idle"
    /\ \E pls \in ValidationPayloadLists, dr \in BOOLEAN :
         LET c == [NoCall EXCEPT !.op = "validate_configuration", !.payloads = pls,
                                 !.dry_run = dr]
         IN /\ call' = Set(call, p, c)
            /\ Resume(p, validate_advance(c, 1, <<>>, active_commits))
    /\ sess' = Set(sess, p, <<>>)
    /\ pending' = Set(pending, p, <<>>)
    /\ reg0' = Set(reg0, p, active_commits)
    /\ swept' = {}
    /\ UNCHANGED now

validate_prefix(transport) ==
    IF transport = "NETCONF" THEN "NETCONF validation for" ELSE "gNMI validation for"

validate_error(transport) ==
    IF transport = "NETCONF" THEN "Connection or validation error" ELSE "gNMI validation error"

\* _validate_netconf_payload: the first RPC inside `async with client`
validate_first_op(transport, dry_run) ==
    IF dry_run THEN "validate" ELSE "edit_config"

\* _validate_gnmi_payload: json.loads(payload.payload) inside `async with`
\* (line 312); parses = FALSE is the payload text that is no JSON, the
\* exception leaves the `async with` and is caught at line 332
validate_gnmi_loads(payload, dry_run, parses) ==
    IF ~parses
    THEN [pc |-> "disconnect",
          pending |-> <<ValidationResult(FALSE, "gNMI validation for", payload.target,
                                         "gNMI validation error")>>]
    ELSE IF dry_run
    THEN [pc |-> "disconnect",
          pending |-> <<ValidationResult(TRUE, "gNMI validation for", payload.target,
                                         "gNMI payload syntax validation passed")>>]
    ELSE [pc |-> "set", pending |-> <<>>]

validate_connect(p) ==
    /\ call[p].op = "validate_configuration" /\ pc[p] = "connect"
    /\ LET pl == call[p].payloads[idx[p]]
       IN \E ok \in BOOLEAN :
            /\ IF ok
               THEN /\ IF pl.transport = "GNMI"
                       THEN \E parses \in BOOLEAN :
                              LET g == validate_gnmi_loads(pl, call[p].dry_run, parses)
                              IN /\ sess' = Set(sess, p,
                                       AddRpc(OpenSession(sess[p], idx[p], pl.target, TRUE),
                                              "json_loads", "payload", parses))
                                 /\ pc' = Set(pc, p, g.pc)
                                 /\ pending' = Set(pending, p, g.pending)
                       ELSE /\ sess' = Set(sess, p, OpenSession(sess[p], idx[p], pl.target, TRUE))
                            /\ pc' = Set(pc, p, validate_first_op(pl.transport, call[p].dry_run))
                            /\ pending' = Set(pending, p, <<>>)
                    /\ UNCHANGED <<idx, results, active_commits>>
               ELSE /\ sess' = Set(sess, p, OpenSession(sess[p], idx[p], pl.target, FALSE))
                    /\ LET r == Append(results[p],
                                 ValidationResult(FALSE, validate_prefix(pl.transport), pl.target,
                                                  validate_error(pl.transport)))
                       IN Resume(p, validate_advance(call[p], validate_next(call[p], idx[p], r),
                                                     r, active_commits))
                    /\ UNCHANGED pending
    /\ UNCHANGED <<now, call, reg0, swept>>

\* faulty variant: validate is issued whatever edit_config returned
validate_after_edit_config_always(ok) == "validate"

\* _validate_netconf_payload, dry_run = False: edit_config returned (lines 271-276)
validate_after_edit_config(ok) == IF ok THEN "validate" ELSE "disconnect"

validate_edit_config(p) ==
    /\ call[p].op = "validate_configuration" /\ pc[p] = "edit_config"
    /\ \E ok \in BOOLEAN :
         /\ sess' = Set(sess, p, AddRpc(sess[p], "edit_config", "candidate", ok))
         /\ pc' = Set(pc, p, validate_after_edit_config(ok))
         /\ pending' = Set(pending, p,
               IF ok THEN <<>>
               ELSE <<ValidationResult(FALSE, "NETCONF validation for", Target(p),
                                       "Failed to apply configuration")>>)
    /\ UNCHANGED <<active_commits, now, call, idx, results, reg0, swept>>

validate_details(dry_run, ok) ==
    IF dry_run
    THEN IF ok THEN "Candidate configuration validated successfully" ELSE "Validation failed"
    ELSE IF ok THEN "Configuration applied and validated" ELSE "Applied but validation failed"

\* validate("candidate") returned: both branches go on to the return (lines 268-286)
validate_after_validate(dry_run, ok) == "disconnect"

validate_validate(p) ==
    /\ call[p].op = "validate_configuration" /\ pc[p] = "validate"
    /\ \E ok \in BOOLEAN :
         /\ sess' = Set(sess, p, AddRpc(sess[p], "validate", "candidate", ok))
         /\ pc' = Set(pc, p, validate_after_validate(call[p].dry_run, ok))
         /\ pending' = Set(pending, p,
               <<ValidationResult(ok, "NETCONF validation for", Target(p),
                                  validate_details(call[p].dry_run, ok))>>)
    /\ UNCHANGED <<active_commits, now, call, idx, results, reg0, swept>>

\* _validate_gnmi_payload, dry_run = False: client.set(updates) returned
validate_set(p) ==
    /\ call[p].op = "validate_configuration" /\ pc[p] = "set"
    /\ \E ok \in BOOLEAN :
         /\ sess' = Set(sess, p, AddRpc(sess[p], "set", "update", ok))
         /\ pending' = Set(pending, p,
               <<ValidationResult(ok, "gNMI validation for", Target(p),
                    IF ok THEN "Configuration applied via gNMI" ELSE "gNMI set operation failed")>>)
    /\ pc' = Set(pc, p, "disconnect")
    /\ UNCHANGED <<active_commits, now, call, idx, results, reg0, swept>>

validate_disconnect(p) ==
    /\ call[p].op = "validate_configuration" /\ pc[p] = "disconnect"
    /\ LET r == results[p] \o pending[p]
       IN Resume(p, validate_advance(call[p], validate_next(call[p], idx[p], r), r, active_commits))
    /\ pending' = Set(pending, p, <<>>)
    /\ UNCHANGED <<now, call, sess, reg0, swept>>

----------------------------------------------------------------------------
(* cleanup_expired_commits, the clock, the caller *)

\* faulty variant: the comparison is the wrong way round
expired_reversed(ac) == {t \in DOMAIN ac : ac[t].timeout > now}

\* faulty variant: an entry whose expiry is the current time counts as expired
expired_inclusive(ac) == {t \in DOMAIN ac : ac[t].timeout <= now}

expired(ac) == {t \in DOMAIN ac : ac[t].timeout < now}

cleanup_expired_commits(p) ==
    /\ pc[p] = "idle"
    /\ active_commits' = [t \in DOMAIN active_commits \ expired(active_commits)
                            |-> active_commits[t]]
    /\ swept' = expired(active_commits)
    /\ UNCHANGED <<now, call, pc, idx, results, pending, sess, reg0>>

get_active_commits == active_commits

Tick ==
    /\ now < MaxTime
    /\ now' = now + 1
    /\ UNCHANGED <<active_commits, call, pc, idx, results, pending, sess, reg0, swept>>

\* the caller takes the returned list
Return(p) ==
    /\ pc[p] = "done"
    /\ pc' = Set(pc, p, "idle")
    /\ call' = Set(call, p, NoCall)
    /\ idx' = Set(idx, p, 1)
    /\ results' = Set(results, p, <<>>)
    /\ sess' = Set(sess, p, <<>>)
    /\ reg0' = Set(reg0, p, EmptyRegistry)
    /\ UNCHANGED <<active_commits, now, pending, swept>>

----------------------------------------------------------------------------
\* ValidationEngine after construction, no call made
EngineInit ==
    /\ active_commits = EmptyRegistry
    /\ now = 0
    /\ call = [p \in Procs |-> NoCall]
    /\ pc = [p \in Procs |-> "idle"]
    /\ idx = [p \in Procs |-> 1]
    /\ results = [p \in Procs |-> <<>>]
    /\ pending = [p \in Procs |-> <<>>]
    /\ sess = [p \in Procs |-> <<>>]
    /\ reg0 = [p \in Procs |-> EmptyRegistry]
    /\ swept = {}

\* ModelDiscovery after construction with an empty cache directory
DiscoveryInit ==
    /\ inventory = <<>>
    /\ intent = [service_type |-> None]
    /\ tasks = <<>>
    /\ dpc = "idle"
    /\ valid_results = <<>>
    /\ cache = {}
    /\ yang_files = <<>>
    /\ today = 0
    /\ put_day = <<>>
    /\ gnmi_pb2 = TRUE
    /\ budget = 0

\* no risk assessment made
RiskInit ==
    /\ risk_call = [service_type |-> None, vendors |-> <<>>, policy |-> <<>>, slo |-> <<>>]
    /\ risk_pc = "none"
    /\ level = "LOW"
    /\ factors = <<>>
    /\ mitigations = <<>>
    /\ risk_assessment = <<>>

\* no function called
UnitInit ==
    /\ unit_call = [fn |-> None]
    /\ unit_result = <<>>

\* the locals of process_intent before any stage ran
NoLocals ==
    [normalized_intent |-> <<>>, risk_assessment |-> <<>>, model_discovery_results |-> <<>>,
     mapping_table |-> <<>>, candidate_payloads |-> <<>>, commit_plan |-> <<>>,
     verification_plan |-> <<>>, raised |-> <<>>]

\* process_intent not called
PipeInit ==
    /\ pipe_call = [fault |-> None]
    /\ pipe_pc = "none"
    /\ pipe_locals = NoLocals
    /\ pipe_response = <<>>

\* NetconfClient.__init__: session is None, conn is not set
ClientInit ==
    /\ client_op = None
    /\ client_pc = "init"
    /\ conn = "unset"
    /\ session = None
    /\ client_rpcs = <<>>
    /\ client_exit = None

Init == EngineInit /\ DiscoveryInit /\ RiskInit /\ UnitInit /\ PipeInit /\ ClientInit

Step(p) ==
    \/ start_commit_configurations(p) /\ UNCHANGED notEngine
    \/ commit_connect(p) /\ UNCHANGED notEngine
    \/ commit_edit_config(p) /\ UNCHANGED notEngine
    \/ commit_validate(p) /\ UNCHANGED notEngine
    \/ commit_discard_changes(p) /\ UNCHANGED notEngine
    \/ commit_commit(p) /\ UNCHANGED notEngine
    \/ commit_disconnect(p) /\ UNCHANGED notEngine
    \/ start_confirm_commits(p) /\ UNCHANGED notEngine
    \/ confirm_connect(p) /\ UNCHANGED notEngine
    \/ confirm_commit(p) /\ UNCHANGED notEngine
    \/ confirm_disconnect(p) /\ UNCHANGED notEngine
    \/ start_rollback_configurations(p) /\ UNCHANGED notEngine
    \/ rollback_connect(p) /\ UNCHANGED notEngine
    \/ rollback_discard_changes(p) /\ UNCHANGED notEngine
    \/ rollback_disconnect(p) /\ UNCHANGED notEngine
    \/ start_validate_configuration(p) /\ UNCHANGED notEngine
    \/ validate_connect(p) /\ UNCHANGED notEngine
    \/ validate_edit_config(p) /\ UNCHANGED notEngine
    \/ validate_validate(p) /\ UNCHANGED notEngine
    \/ validate_set(p) /\ UNCHANGED notEngine
    \/ validate_disconnect(p) /\ UNCHANGED notEngine
    \/ cleanup_expired_commits(p) /\ UNCHANGED notEngine
    \/ Return(p) /\ UNCHANGED notEngine

Next ==
    \/ \E p \in SeqProcs : Step(p)
    \/ Tick /\ UNCHANGED notEngine

\* One caller, which awaits every call of the engine before it makes the next.
Spec == Init /\ [][Next]_vars

----------------------------------------------------------------------------
(* Several callers on the same event loop: their coroutines interleave at   *)
(* every network await.  The calls are made on one device and with lists of *)
(* at most one element.                                                     *)

ConcTarget == "d1"
ConcPayloadLists ==
    {<<>>} \cup {<<[target |-> ConcTarget, transport |-> tr]>> : tr \in {"NETCONF", "GNMI"}}
ConcDeviceTargetArgs ==
    {[given |-> FALSE, list |-> <<>>], [given |-> TRUE, list |-> <<ConcTarget>>]}

conc_commit_configurations(p) ==
    \E pls \in ConcPayloadLists, tm \in TimeoutChoices :
        call_commit_configurations(p, pls, TRUE, tm)

conc_confirm_commits(p) ==
    \E dt \in ConcDeviceTargetArgs : call_confirm_commits(p, dt)

conc_rollback_configurations(p) ==
    \E dt \in ConcDeviceTargetArgs : call_rollback_configurations(p, dt)

ConcStep(p) ==
    \/ conc_commit_configurations(p) /\ UNCHANGED notEngine
    \/ commit_connect(p) /\ UNCHANGED notEngine
    \/ commit_edit_config(p) /\ UNCHANGED notEngine
    \/ commit_validate(p) /\ UNCHANGED notEngine
    \/ commit_discard_changes(p) /\ UNCHANGED notEngine
    \/ commit_commit(p) /\ UNCHANGED notEngine
    \/ commit_disconnect(p) /\ UNCHANGED notEngine
    \/ conc_confirm_commits(p) /\ UNCHANGED notEngine
    \/ confirm_connect(p) /\ UNCHANGED notEngine
    \/ confirm_commit(p) /\ UNCHANGED notEngine
    \/ confirm_disconnect(p) /\ UNCHANGED notEngine
    \/ conc_rollback_configurations(p) /\ UNCHANGED notEngine
    \/ rollback_connect(p) /\ UNCHANGED notEngine
    \/ rollback_discard_changes(p) /\ UNCHANGED notEngine
    \/ rollback_disconnect(p) /\ UNCHANGED notEngine
    \/ cleanup_expired_commits(p) /\ UNCHANGED notEngine
    \/ Return(p) /\ UNCHANGED notEngine

NextConc ==
    \/ \E p \in Procs : ConcStep(p)
    \/ Tick /\ UNCHANGED notEngine

SpecConc == Init /\ [][NextConc]_vars

----------------------------------------------------------------------------
(***************************************************************************)
(* Model Discovery Engine (src/src/core/model_discovery.py, classes        *)
(* ModelCache and ModelDiscovery).  discover_models starts one coroutine   *)
(* per inventory device with asyncio.gather; the coroutines interleave at  *)
(* their network awaits and share the model cache.                         *)
(***************************************************************************)

\* YANG models, "name@revision"
Model(n, r) == [name |-> n, revision |-> r]

\* _get_required_models(intent, vendor): the required models in list order
get_required_models(service_name, vendor) ==
    IF service_name = None THEN <<>>
    ELSE IF service_name = "l3vpn"
    THEN <<Model("ietf-l3vpn-svc", "2018-01-19"),
           Model("ietf-network-instance", "2019-01-21"),
           Model("openconfig-network-instance", "2021-08-24")>>
         \o (IF vendor = "cisco"
             THEN <<Model("Cisco-IOS-XR-mpls-vpn-cfg", "2019-04-05"),
                    Model("cisco-xr-openconfig-network-instance-deviations", "2019-04-05")>>
             ELSE IF vendor = "nokia"
             THEN <<Model("nokia-conf-service", "2021-09-30"),
                    Model("nokia-state-service", "2021-09-30")>>
             ELSE IF vendor = "juniper"
             THEN <<Model("junos-conf-routing-instances", "2021-01-01")>>
             ELSE <<>>)
    ELSE IF service_name \in {"evpn", "l2vpn-epipe"}
    THEN <<Model("ietf-l2vpn-svc", "2020-08-24"),
           Model("openconfig-evpn", "2021-06-16"),
           Model("ietf-evpn", "2021-07-13")>>
    ELSE IF service_name = "bgp"
    THEN <<Model("ietf-bgp", "2019-03-21"), Model("openconfig-bgp", "2021-08-06")>>
    ELSE IF service_name = "isis"
    THEN <<Model("ietf-isis", "2020-02-24"), Model("openconfig-isis", "2021-07-28")>>
    ELSE IF service_name = "ospf"
    THEN <<Model("ietf-ospf", "2020-02-24"), Model("openconfig-ospf", "2021-07-28")>>
    ELSE <<>>

Range(s) == {s[i] : i \in DOMAIN s}

\* str.lower() on the vendor names of the inventories below
Lower(v) == IF v = "Juniper" THEN "juniper" ELSE v

\* dict.get(key, default) on an optional flag: <<>> is the absent key
Get(opt, default) == IF opt = <<>> THEN default ELSE opt[1]

\* the device records of the inventories: the fields discovery reads; an
\* absent gnmi_enabled or restconf_enabled reads as False
DeviceVendors == {"nokia", "Juniper"}
Devices ==
    [vendor : DeviceVendors,
     netconf_enabled : {<<>>, <<TRUE>>, <<FALSE>>},
     gnmi_enabled : BOOLEAN,
     restconf_enabled : BOOLEAN]

\* one device record for each branch of the chain
BranchDevices ==
    {dev \in Devices :
        /\ dev.netconf_enabled \in {<<>>, <<FALSE>>}
        /\ dev.netconf_enabled = <<>> => ~dev.gnmi_enabled /\ ~dev.restconf_enabled
        /\ ~(dev.gnmi_enabled /\ dev.restconf_enabled)}

\* longest inventory handed to discover_models
MaxDevices == 2
\* the inventories: every device record alone, and the lists of up to
\* MaxDevices records of BranchDevices
Inventories == SeqsUpTo(BranchDevices, MaxDevices) \cup {<<dev>> : dev \in Devices}

\* intent.service_type.value of the intents handed to discover_models
ServiceNames == {"bgp", "l3vpn", "qos"}
\* the calls of discover_models of one behaviour have a budget of MaxFetches
\* between them; a call is charged, for each of its devices, one plus the
\* length of the longest list of required models of its service type
MaxFetches == 6
Cost(inv, s) == Len(inv) * (1 + Len(get_required_models(s, "nokia")))

\* the modules a device may advertise in its hello: a model required for bgp
\* and another revision of the other one.  No name of the models of the
\* module is a substring of another "name@revision", so the test
\* `req_model.split('@')[0] in model` (line 205) is equality of the names.
Advertised == {Model("ietf-bgp", "2016-01-06"), Model("openconfig-bgp", "2021-08-06")}

NamePresent(req, models) == \E m \in models : req.name = m.name

\* gap strings: the fixed text and the model the string names
Gap(text, m) == [text |-> text, model |-> m]
NoModel == Model(None, None)

\* cache keys f"{vendor}_{model}" / f"{source}_{model}"
Key(prefix, m) == [prefix |-> prefix, model |-> m]

\* max_age_days of ModelCache.is_expired
max_age_days == 7
\* the clock of the cache runs from day 0 to MaxDay, in steps of DaysPerStep
MaxDay == 8
DaysPerStep == 4

\* a cache file the operator may have put into the cache directory
SeedKey == Key("nokia", Model("ietf-bgp", "2019-03-21"))

\* ModelCache.is_expired(model_key)
is_expired(key) ==
    \/ key \notin cache
    \/ key \notin DOMAIN yang_files
    \/ today - yang_files[key] > max_age_days

\* ModelDiscoveryResult
ModelDiscoveryResult(target, transport, models_found, source, gaps) ==
    [target |-> target, transport |-> transport, models_found |-> models_found,
     source |-> source, gaps |-> gaps]

\* the coroutine of a device that is not started
NoTask ==
    [pc |-> "none", transport |-> "NETCONF", source |-> "unknown",
     models_found |-> {}, gaps |-> {}, vendor |-> None,
     required |-> <<>>, k |-> 1, models |-> {}, lgaps |-> {},
     handler |-> FALSE, result |-> <<>>,
     live_raised |-> FALSE, live |-> FALSE, miss_after_put |-> FALSE]

\* faulty variant: the gaps handed over are not taken into the result
device_return_without_gaps(t, d, models, gaps, src) ==
    LET mf == t.models_found \cup models
    IN [t EXCEPT !.pc = "done", !.models_found = mf, !.source = src,
                 !.result = <<ModelDiscoveryResult(d, t.transport, mf, src, t.gaps)>>]

\* return ModelDiscoveryResult(...) (lines 170-176) after the branch or the
\* handler handed over (models, gaps, src)
device_return(t, d, models, gaps, src) ==
    LET mf == t.models_found \cup models
        gp == t.gaps \cup gaps
    IN [t EXCEPT !.pc = "done", !.models_found = mf, !.gaps = gp, !.source = src,
                 !.result = <<ModelDiscoveryResult(d, t.transport, mf, src, gp)>>]

\* _discover_from_repos from required model k on, up to the next remote fetch
\* or to its return; _get_from_cache_or_repo serves a model from the cache
\* when its entry is not expired
RECURSIVE repos_advance(_, _, _, _, _)
repos_advance(t, d, k, models, gaps) ==
    IF k > Len(t.required)
    THEN device_return(t, d, models, gaps,
                       IF t.handler THEN "repository-fallback" ELSE "repository")
    ELSE LET key == Key(t.vendor, t.required[k])
         IN IF ~is_expired(key)
            THEN repos_advance(t, d, k + 1, models \cup {t.required[k]}, gaps)
            ELSE [t EXCEPT !.pc = "fetch", !.k = k, !.models = models, !.lgaps = gaps,
                           !.miss_after_put =
                               /\ key \in DOMAIN put_day
                               /\ today - put_day[key] <= max_age_days]

\* _discover_via_netconf: the loop over the required models from k on, up to
\* the next get-schema or to the end of the `async with`
RECURSIVE netconf_advance(_, _, _, _)
netconf_advance(t, k, models, gaps) ==
    IF k > Len(t.required)
    THEN [t EXCEPT !.pc = "disconnect", !.k = k, !.models = models, !.lgaps = gaps]
    ELSE IF NamePresent(t.required[k], models)
    THEN netconf_advance(t, k + 1, models, gaps)
    ELSE [t EXCEPT !.pc = "get_schema", !.k = k, !.models = models, !.lgaps = gaps]

\* _discover_via_gnmi: the client is constructed and get_capabilities is called
\* on it without connect(): self.stub is None, the call fails inside
\* get_capabilities and {} is returned (gnmi_client.py 72-101); the
\* constructor raises ImportError when the gnmi modules are missing (33-35)
discover_via_gnmi(required) ==
    IF gnmi_pb2
    THEN [models |-> {},
          gaps |-> {Gap("Required model not supported", required[k]) : k \in DOMAIN required}]
    ELSE [models |-> {}, gaps |-> {Gap("gNMI connection failed", NoModel)}]

\* _discover_via_restconf: get_modules is called without connect():
\* self.session is None, the call fails inside get_modules and [] is returned
\* (restconf_client.py 88-105); the required models are not looked at
discover_via_restconf(required) == [models |-> {}, gaps |-> {}]

\* faulty variant: gNMI is tried before NETCONF
branch_gnmi_first(device) ==
    IF device.gnmi_enabled THEN "GNMI"
    ELSE IF Get(device.netconf_enabled, TRUE) THEN "NETCONF"
    ELSE IF device.restconf_enabled THEN "RESTCONF"
    ELSE "repository"

\* the if/elif chain of _discover_device_models (lines 136-161)
branch(device) ==
    IF Get(device.netconf_enabled, TRUE) THEN "NETCONF"
    ELSE IF device.gnmi_enabled THEN "GNMI"
    ELSE IF device.restconf_enabled THEN "RESTCONF"
    ELSE "repository"

\* discover_models: the coroutines are created and handed to asyncio.gather
start_discover_models ==
    /\ dpc = "idle"
    /\ \E inv \in Inventories, s \in ServiceNames :
         /\ Cost(inv, s) <= budget
         /\ budget' = budget - Cost(inv, s)
         /\ inventory' = inv
         /\ intent' = [service_type |-> s]
         /\ tasks' = [d \in DOMAIN inv |-> [NoTask EXCEPT !.pc = "start"]]
    /\ dpc' = "gather"
    /\ valid_results' = <<>>
    /\ UNCHANGED <<cache, yang_files, today, put_day, gnmi_pb2>>

SetTask(d, t) == tasks' = [tasks EXCEPT ![d] = t]

\* the event loop runs the first step of every coroutine of the gather, in
\* list order, before it resumes any of them
Started(d) == tasks[d].pc # "start"
AllStarted == \A e \in DOMAIN tasks : Started(e)

\* _discover_device_models from its start to its first network await
discover_device_models(d) ==
    /\ dpc = "gather" /\ d \in DOMAIN tasks /\ tasks[d].pc = "start"
    /\ \A e \in 1..(d - 1) : Started(e)
    /\ LET device == inventory[d]
           b == branch(device)
           \* the live branches are handed device.get('vendor'), the
           \* repository branch vendor.lower()
           v == IF b = "repository" THEN Lower(device.vendor) ELSE device.vendor
           req == get_required_models(intent.service_type, v)
           t == [tasks[d] EXCEPT !.vendor = Lower(device.vendor), !.required = req,
                                 !.transport = IF b = "repository" THEN "NETCONF" ELSE b,
                                 !.live = b # "repository"]
       IN IF b = "NETCONF" THEN SetTask(d, [t EXCEPT !.pc = "connect"])
          ELSE IF b = "GNMI"
          THEN SetTask(d, device_return([t EXCEPT !.live_raised = ~gnmi_pb2], d,
                                        discover_via_gnmi(req).models,
                                        discover_via_gnmi(req).gaps, "on-device-gnmi"))
          ELSE IF b = "RESTCONF"
          THEN SetTask(d, device_return(t, d, discover_via_restconf(req).models,
                                        discover_via_restconf(req).gaps, "on-device-restconf"))
          ELSE SetTask(d, repos_advance(t, d, 1, {}, {}))
    /\ UNCHANGED <<inventory, intent, dpc, valid_results, cache, yang_files, today,
                   put_day, gnmi_pb2, budget>>

\* the except clause of _discover_device_models (lines 163-168) up to its call
\* of _discover_from_repos(vendor, intent)
handler_entered(t) ==
    [t EXCEPT !.handler = TRUE, !.gaps = @ \cup {Gap("Discovery failed", NoModel)},
              !.required = get_required_models(intent.service_type, t.vendor),
              !.models = {}, !.lgaps = {}, !.k = 1]

\* _discover_via_netconf: connect() raised; the except clause of the function
\* records a gap and the function returns its tag (lines 216-219)
netconf_connect_failed(t, d) ==
    device_return([t EXCEPT !.live_raised = TRUE], d, {},
                  {Gap("NETCONF connection failed", NoModel)}, "on-device-netconf")

\* _discover_via_netconf: `async with client` entered or raised
netconf_connect(d) ==
    /\ dpc = "gather" /\ d \in DOMAIN tasks /\ AllStarted /\ tasks[d].pc = "connect"
    /\ \/ SetTask(d, netconf_connect_failed(tasks[d], d))
       \/ \E caps \in SUBSET Advertised :
            SetTask(d, netconf_advance(tasks[d], 1, caps, {}))
    /\ UNCHANGED <<inventory, intent, dpc, valid_results, cache, yang_files, today,
                   put_day, gnmi_pb2, budget>>

\* ModelCache.put: the entry is set in memory, then save() writes the index
\* file; written = FALSE is save() raising OSError
cache_put(key, written) ==
    /\ cache' = cache \cup {key}
    /\ put_day' = IF written
                  THEN [x \in DOMAIN put_day \cup {key} |-> IF x = key THEN today ELSE put_day[x]]
                  ELSE put_day

\* _discover_via_netconf: get_schema returned (lines 206-214); it returns None
\* on every failure of its own (netconf_client.py 147-171)
netconf_get_schema(d) ==
    /\ dpc = "gather" /\ d \in DOMAIN tasks /\ AllStarted /\ tasks[d].pc = "get_schema"
    /\ LET t == tasks[d]
           m == t.required[t.k]
       IN \/ /\ SetTask(d, netconf_advance(t, t.k + 1, t.models,
                               t.lgaps \cup {Gap("Schema not available", m)}))
             /\ UNCHANGED <<cache, put_day>>
          \/ \E written \in BOOLEAN :
               /\ cache_put(Key("netconf", m), written)
               /\ SetTask(d, netconf_advance(t, t.k + 1, t.models \cup {m},
                                 IF written THEN t.lgaps
                                 ELSE t.lgaps \cup {Gap("Failed to get schema", m)}))
    /\ UNCHANGED <<inventory, intent, dpc, valid_results, yang_files, today, gnmi_pb2, budget>>

\* _discover_via_netconf: the `async with` is left, the function returns
netconf_disconnect(d) ==
    /\ dpc = "gather" /\ d \in DOMAIN tasks /\ AllStarted /\ tasks[d].pc = "disconnect"
    /\ SetTask(d, device_return(tasks[d], d, tasks[d].models, tasks[d].lgaps,
                                "on-device-netconf"))
    /\ UNCHANGED <<inventory, intent, dpc, valid_results, cache, yang_files, today,
                   put_day, gnmi_pb2, budget>>

\* an exception leaves _discover_from_repos: in the try block it is caught at
\* line 163 and the handler starts the repository resolution again; in the
\* handler it leaves the coroutine
repos_raised(t, d) ==
    IF t.handler
    THEN [t EXCEPT !.pc = "raised"]
    ELSE repos_advance(handler_entered(t), d, 1, {}, {})

\* _get_from_cache_or_repo: _fetch_from_repos returned (lines 309-322): None
\* when no URL answered 200, else the content, which is put into the cache
repos_fetch(d) ==
    /\ dpc = "gather" /\ d \in DOMAIN tasks /\ AllStarted /\ tasks[d].pc = "fetch"
    /\ LET t == tasks[d]
           m == t.required[t.k]
       IN \/ /\ SetTask(d, repos_advance(t, d, t.k + 1, t.models,
                               t.lgaps \cup {Gap("Model not found in repositories", m)}))
             /\ UNCHANGED <<cache, put_day>>
          \/ /\ cache_put(Key(t.vendor, m), TRUE)
             /\ SetTask(d, repos_advance(t, d, t.k + 1, t.models \cup {m}, t.lgaps))
          \/ /\ cache_put(Key(t.vendor, m), FALSE)
             /\ SetTask(d, repos_raised(t, d))
    /\ UNCHANGED <<inventory, intent, dpc, valid_results, yang_files, today, gnmi_pb2, budget>>

\* discover_models: `if isinstance(result, Exception): continue`
keep_result(t) == t.pc = "done"

RECURSIVE gather_results(_, _)
gather_results(ts, d) ==
    IF d > Len(ts) THEN <<>>
    ELSE (IF keep_result(ts[d]) THEN ts[d].result ELSE <<>>) \o gather_results(ts, d + 1)

\* discover_models: gather returned, the exceptions are filtered out
discover_models_return ==
    /\ dpc = "gather"
    /\ \A d \in DOMAIN tasks : tasks[d].pc \in {"done", "raised"}
    /\ valid_results' = gather_results(tasks, 1)
    /\ dpc' = "returned"
    /\ UNCHANGED <<inventory, intent, tasks, cache, yang_files, today, put_day, gnmi_pb2, budget>>

\* the caller takes the list
discover_models_taken ==
    /\ dpc = "returned"
    /\ dpc' = "idle"
    /\ inventory' = <<>>
    /\ intent' = [service_type |-> None]
    /\ tasks' = <<>>
    /\ valid_results' = <<>>
    /\ UNCHANGED <<cache, yang_files, today, put_day, gnmi_pb2, budget>>

\* time passes between two calls of discover_models
DayPasses ==
    /\ dpc = "idle"
    /\ today + DaysPerStep <= MaxDay
    /\ today' = today + DaysPerStep
    /\ UNCHANGED <<inventory, intent, tasks, dpc, valid_results, cache, yang_files,
                   put_day, gnmi_pb2, budget>>

\* ModelDiscovery after construction: the cache index is empty; the cache
\* directory may hold a schema file, written on day 0
InitDisc ==
    /\ EngineInit
    /\ RiskInit
    /\ UnitInit
    /\ PipeInit
    /\ ClientInit
    /\ inventory = <<>>
    /\ intent = [service_type |-> None]
    /\ tasks = <<>>
    /\ dpc = "idle"
    /\ valid_results = <<>>
    /\ cache = {}
    /\ yang_files \in {<<>>, [x \in {SeedKey} |-> 0]}
    /\ today = 0
    /\ put_day = <<>>
    /\ gnmi_pb2 \in BOOLEAN
    /\ budget = MaxFetches

DeviceIds == 1..MaxDevices

DiscStep ==
    \/ start_discover_models /\ UNCHANGED notDiscovery
    \/ \E d \in DeviceIds : discover_device_models(d) /\ UNCHANGED notDiscovery
    \/ \E d \in DeviceIds : netconf_connect(d) /\ UNCHANGED notDiscovery
    \/ \E d \in DeviceIds : netconf_get_schema(d) /\ UNCHANGED notDiscovery
    \/ \E d \in DeviceIds : netconf_disconnect(d) /\ UNCHANGED notDiscovery
    \/ \E d \in DeviceIds : repos_fetch(d) /\ UNCHANGED notDiscovery
    \/ discover_models_return /\ UNCHANGED notDiscovery
    \/ discover_models_taken /\ UNCHANGED notDiscovery
    \/ DayPasses /\ UNCHANGED notDiscovery

NextDisc == DiscStep

\* One caller of discover_models, which awaits a call before it makes the next.
SpecDisc == InitDisc /\ [][NextDisc]_vars

----------------------------------------------------------------------------
(***************************************************************************)
(* Risk assessment (src/src/core/intent_processor.py,                      *)
(* IntentProcessor._assess_risks).  The function is synchronous; its four  *)
(* if statements are the steps of the model.                               *)
(***************************************************************************)

\* ServiceType: the eleven members _detect_service_type returns
ServiceTypes ==
    {"L3VPN", "L2VPN_EPIPE", "EVPN", "ISIS", "OSPF", "BGP", "QOS", "ACL", "SRV6",
     "SEGMENT_ROUTING", "TELEMETRY"}

\* d.get("vendor", "") of the inventory devices: a device without the key
\* reads as ""
RiskVendors == {"cisco", "nokia", ""}
RiskVendorLists == SeqsUpTo(RiskVendors, MaxDevices)

\* policy: None (<<>>) or a dict, of which maintenance_window is read; the
\* key may be absent (<<>>) or hold an empty or a non-empty string
Policies ==
    {<<>>} \cup {<<[maintenance_window |-> w]>> : w \in {<<>>, <<"">>, <<"Sat 02:00-04:00">>}}

\* slo.latency_ms is drawn from 0..MaxLatency
MaxLatency == 11

\* intent.slo: None (<<>>) or an SLO whose latency_ms is None (<<>>) or a number
Slos ==
    {<<>>} \cup {<<[latency_ms |-> l]>> : l \in {<<>>} \cup {<<n>> : n \in 0..MaxLatency}}

\* the bound of `intent.slo.latency_ms < 10`
latency_bound == 10

\* intent.service_type in [ServiceType.L3VPN, ServiceType.EVPN]
core_routing(c) == c.service_type \in {"L3VPN", "EVPN"}

\* len(set(d.get("vendor", "") for d in inventory)) > 1
multi_vendor(c) == Cardinality(Range(c.vendors)) > 1

\* not policy or not policy.get("maintenance_window")
no_maintenance_window(c) ==
    \/ c.policy = <<>>
    \/ c.policy[1].maintenance_window = <<>>
    \/ c.policy[1].maintenance_window[1] = ""

\* intent.slo and intent.slo.latency_ms and intent.slo.latency_ms < 10:
\* a latency_ms of 0 is falsy
aggressive_slo(c) ==
    /\ c.slo # <<>>
    /\ c.slo[1].latency_ms # <<>>
    /\ c.slo[1].latency_ms[1] # 0
    /\ c.slo[1].latency_ms[1] < latency_bound

\* lines 216-219
level_core_routing(l, hit) == IF hit THEN "MEDIUM" ELSE l

\* lines 221-225
level_multi_vendor(l, hit) == IF hit THEN "MEDIUM" ELSE l

\* faulty variant: the level is set from the maintenance window alone
level_maintenance_window_alone(l, hit) == IF hit THEN "MEDIUM" ELSE "LOW"

\* lines 227-231
level_maintenance_window(l, hit) == IF hit /\ l = "LOW" THEN "MEDIUM" ELSE l

\* lines 233-236
level_slo(l, hit) == IF hit THEN "HIGH" ELSE l

\* _assess_risks as a function of its arguments: the level returned
assess_level(c) ==
    level_slo(
      level_maintenance_window(
        level_multi_vendor(
          level_core_routing("LOW", core_routing(c)),
          multi_vendor(c)),
        no_maintenance_window(c)),
      aggressive_slo(c))

assess_risks_called ==
    /\ risk_pc = "none"
    /\ \E st \in ServiceTypes, vs \in RiskVendorLists, po \in Policies, sl \in Slos :
         risk_call' = [service_type |-> st, vendors |-> vs, policy |-> po, slo |-> sl]
    /\ risk_pc' = "core_routing"
    /\ level' = "LOW"
    /\ factors' = <<>>
    /\ mitigations' = <<>>
    /\ UNCHANGED risk_assessment

\* one if statement: the factor and the mitigation are appended when it triggers
risk_step(hit, factor, mitigation, l, nextpc) ==
    /\ factors' = IF hit THEN Append(factors, factor) ELSE factors
    /\ mitigations' = IF hit THEN Append(mitigations, mitigation) ELSE mitigations
    /\ level' = l
    /\ risk_pc' = nextpc
    /\ UNCHANGED <<risk_call, risk_assessment>>

assess_core_routing ==
    /\ risk_pc = "core_routing"
    /\ risk_step(core_routing(risk_call), "Core routing modification required",
                 "Use confirmed-commit with auto-rollback",
                 level_core_routing(level, core_routing(risk_call)), "multi_vendor")

assess_multi_vendor ==
    /\ risk_pc = "multi_vendor"
    /\ risk_step(multi_vendor(risk_call), "Multi-vendor environment detected",
                 "Validate vendor-specific YANG models",
                 level_multi_vendor(level, multi_vendor(risk_call)), "maintenance_window")

assess_maintenance_window ==
    /\ risk_pc = "maintenance_window"
    /\ risk_step(no_maintenance_window(risk_call), "No maintenance window specified",
                 "Schedule during low-traffic period",
                 level_maintenance_window(level, no_maintenance_window(risk_call)), "slo")

assess_slo ==
    /\ risk_pc = "slo"
    /\ risk_step(aggressive_slo(risk_call), "Aggressive SLO requirements",
                 "Enable performance monitoring pre/post change",
                 level_slo(level, aggressive_slo(risk_call)), "return")

\* faulty variant: the lists are returned as they are, empty or not
RiskAssessment_as_collected(l, f, m) == [level |-> l, factors |-> f, mitigations |-> m]

\* RiskAssessment(level, factors or the default, mitigations or the default)
RiskAssessment(l, f, m) ==
    [level |-> l,
     factors |-> IF f # <<>> THEN f ELSE <<"Standard configuration change">>,
     mitigations |-> IF m # <<>> THEN m ELSE <<"Follow standard procedures">>]

assess_return ==
    /\ risk_pc = "return"
    /\ risk_assessment' = <<RiskAssessment(level, factors, mitigations)>>
    /\ risk_pc' = "returned"
    /\ UNCHANGED <<risk_call, level, factors, mitigations>>

InitRisk == EngineInit /\ DiscoveryInit /\ RiskInit /\ UnitInit /\ PipeInit /\ ClientInit

NextRisk ==
    \/ assess_risks_called /\ UNCHANGED notRisk
    \/ assess_core_routing /\ UNCHANGED notRisk
    \/ assess_multi_vendor /\ UNCHANGED notRisk
    \/ assess_maintenance_window /\ UNCHANGED notRisk
    \/ assess_slo /\ UNCHANGED notRisk
    \/ assess_return /\ UNCHANGED notRisk

\* One call of _assess_risks.
SpecRisk == InitRisk /\ [][NextRisk]_vars

----------------------------------------------------------------------------
(***************************************************************************)
(* The synchronous functions of the pipeline, each called directly with    *)
(* arguments drawn from bounded sets (src/src/core/intent_processor.py,    *)
(* yang_mapper.py, config_generator.py).                                   *)
(***************************************************************************)

RiskLevels == {"LOW", "MEDIUM", "HIGH"}

\* _create_commit_plan is called with up to MaxPlanPayloads payloads
MaxPlanPayloads == 7

\* len(payloads) > 5
batching_bound == 5

\* rollback timeout_seconds for a HIGH risk and otherwise
high_risk_timeout == 120
standard_timeout == 300

\* faulty variant: the staged strategy is chosen from MEDIUM up
strategy_from_medium(risk_level) ==
    IF risk_level # "LOW" THEN "dry-run+manual-review+staged-commit"
    ELSE "candidate+validate+confirmed-commit"

\* lines 261-264
strategy(risk_level) ==
    IF risk_level = "HIGH" THEN "dry-run+manual-review+staged-commit"
    ELSE "candidate+validate+confirmed-commit"

\* IntentProcessor._create_commit_plan(payloads, risk, policy)
create_commit_plan(payloads, risk, policy) ==
    [strategy |-> strategy(risk.level),
     batching |-> IF Len(payloads) > batching_bound THEN "per-vendor" ELSE "all-at-once",
     rollback |-> [method |-> "confirmed-commit-timeout",
                   timeout_seconds |-> IF risk.level = "HIGH" THEN high_risk_timeout
                                       ELSE standard_timeout],
     maintenance_window |-> IF policy # <<>> THEN policy[1].maintenance_window ELSE <<>>]

\* the payloads of a commit plan: only their number is read
PlanPayloads == UNION {[1..k -> {[target |-> "pe1", transport |-> "NETCONF"]}] : k \in 0..MaxPlanPayloads}

call_create_commit_plan ==
    /\ unit_call.fn = None
    /\ \E payloads \in PlanPayloads, l \in RiskLevels, policy \in Policies :
      LET risk == RiskAssessment(l, <<>>, <<>>) IN
      /\ unit_call' = [fn |-> "_create_commit_plan", payloads |-> payloads,
                       risk |-> risk, policy |-> policy]
      /\ unit_result' = <<create_commit_plan(payloads, risk, policy)>>

\* CandidatePayload(target, transport, payload_type, payload, prechecks,
\* post_validation), as _generate_device_payload builds it
CandidatePayload(target, transport, payload_type, payload, prechecks, post_validation) ==
    [target |-> target, transport |-> transport, payload_type |-> payload_type,
     payload |-> payload, prechecks |-> prechecks, post_validation |-> post_validation]

\* payload bodies the generator returns
Bodies == {"<config><!-- EVPN config --></config>", "<config><!-- BGP config --></config>"}

\* hashlib.sha256(data).hexdigest(): the digest is not computed, it is the
\* value determined by the bytes hashed
sha256_hexdigest(data) == [sha256 |-> data]

\* str.encode(): the UTF-8 bytes of a string
encode(str) == [utf8 |-> str]

\* f"payload_{i}"
payload_key(i) == <<"payload_", i>>

\* list(set(xs)): the distinct elements in an order the set decides
ListsOfSet(S) == {l \in [1..Cardinality(S) -> S] : Range(l) = S}

\* faulty variant: the target of the payload is hashed
audit_hashed_target(payload) == payload.target

\* line 289: payload_str = payload.payload
audit_hashed(payload) == payload.payload

\* lines 286-292: enumerate(payloads) counts from 0
audit_hashes(payloads) ==
    [k \in {payload_key(i - 1) : i \in DOMAIN payloads} |->
        sha256_hexdigest(encode(audit_hashed(payloads[k[2] + 1])))]

\* the source tags a discovery result carries
SourceTags ==
    {"on-device-netconf", "on-device-gnmi", "on-device-restconf", "repository",
     "repository-fallback"}

\* discovery results and payloads handed to _create_audit_log
AuditResults ==
    SeqsUpTo({ModelDiscoveryResult("d1", "NETCONF", {}, src, {}) : src \in SourceTags}, MaxDevices)
AuditPayloads ==
    SeqsUpTo({CandidatePayload(t, "NETCONF", "xml", b, <<>>, <<>>) : t \in Targets, b \in Bodies},
             MaxPayloads)

\* IntentProcessor._create_audit_log(discovery_results, payloads)
call_create_audit_log ==
    /\ unit_call.fn = None
    /\ \E discovery_results \in AuditResults, payloads \in AuditPayloads :
      \E sources \in ListsOfSet({discovery_results[i].source : i \in DOMAIN discovery_results}) :
        /\ unit_call' = [fn |-> "_create_audit_log", discovery_results |-> discovery_results,
                         payloads |-> payloads]
        /\ unit_result' = <<[timestamp |-> today, sources |-> sources,
                             hashes |-> audit_hashes(payloads)]>>

\* Endpoint(device, interface, tags)
Endpoint(device, interface, tags) == [device |-> device, interface |-> interface, tags |-> tags]

\* parsed["devices"] and parsed["interfaces"] hold up to MaxEndpoints names
MaxEndpoints == 3
DeviceNames == {"PE1", "CE1", "P1", "PEACE-LAB-1"}
InterfaceNames == {"ge-0/0/1", "xe-0/0/2"}

\* sub in device.lower(), for the device names above
InLower(sub, device) ==
    \/ sub = "pe" /\ device \in {"PE1", "PEACE-LAB-1"}
    \/ sub = "ce" /\ device \in {"CE1", "PEACE-LAB-1"}

\* lines 150-155
endpoint_tags(device) ==
    (IF InLower("pe", device) THEN <<"pe">> ELSE <<>>) \o
    (IF InLower("ce", device) THEN <<"ce">> ELSE <<>>)

\* faulty variant: the interface list is read one place further
endpoint_interface_shifted(interfaces, i) ==
    IF i + 1 < Len(interfaces) THEN interfaces[i + 2] ELSE "auto"

\* line 149, i counted from 0: interfaces[i] if i < len(interfaces) else "auto"
endpoint_interface(interfaces, i) ==
    IF i < Len(interfaces) THEN interfaces[i + 1] ELSE "auto"

\* IntentProcessor._extract_endpoints(parsed, telemetry_hint)
extract_endpoints(devices, interfaces) ==
    LET endpoints == [k \in DOMAIN devices |->
                        Endpoint(devices[k], endpoint_interface(interfaces, k - 1),
                                 endpoint_tags(devices[k]))]
    IN IF endpoints # <<>> THEN endpoints
       ELSE <<Endpoint("auto", "auto", <<"auto-discovered">>)>>

call_extract_endpoints ==
    /\ unit_call.fn = None
    /\ \E devices \in SeqsUpTo(DeviceNames, MaxEndpoints),
       interfaces \in SeqsUpTo(InterfaceNames, MaxEndpoints) :
      /\ unit_call' = [fn |-> "_extract_endpoints", devices |-> devices,
                       interfaces |-> interfaces]
      /\ unit_result' = <<extract_endpoints(devices, interfaces)>>

\* Vendor: the members the mapper and the generator name, and two that fall
\* to their else branches
Vendors == {"cisco", "nokia", "juniper", "arista", "huawei"}

\* ServiceType.value
ServiceValue(st) ==
    CASE st = "L3VPN" -> "l3vpn"
      [] st = "L2VPN_EPIPE" -> "l2vpn-epipe"
      [] st = "EVPN" -> "evpn"
      [] st = "ISIS" -> "isis"
      [] st = "OSPF" -> "ospf"
      [] st = "BGP" -> "bgp"
      [] st = "QOS" -> "qos"
      [] st = "ACL" -> "acl"
      [] st = "SRV6" -> "srv6"
      [] st = "SEGMENT_ROUTING" -> "segment-routing"
      [] st = "TELEMETRY" -> "telemetry"

\* intent.policy: None (<<>>) or a Policy, of which bfd is read
IntentPolicies == {<<>>} \cup {<<[bfd |-> b]>> : b \in BOOLEAN}

\* intent.policy and intent.policy.bfd
bfd_requested(policy) == policy # <<>> /\ policy[1].bfd

\* YANGMapper._get_l3vpn_paths: a path "module:rest" is the pair <<module, rest>>
get_l3vpn_paths(vendor) ==
    IF vendor = "cisco" THEN
        <<<<"Cisco-IOS-XR-infra-rsi-cfg", "vrfs/vrf/vrf-name">>,
          <<"Cisco-IOS-XR-infra-rsi-cfg", "vrfs/vrf/description">>,
          <<"Cisco-IOS-XR-infra-rsi-cfg", "vrfs/vrf/vpn-id">>,
          <<"Cisco-IOS-XR-mpls-vpn-cfg", "l3vpn/vrfs/vrf">>,
          <<"Cisco-IOS-XR-bgp-cfg", "bgp/instance/instance-as/four-byte-as/default-vrf/global/route-distinguisher">>>>
    ELSE IF vendor = "nokia" THEN
        <<<<"nokia-conf", "configure/service/vprn/service-id">>,
          <<"nokia-conf", "configure/service/vprn/customer">>,
          <<"nokia-conf", "configure/service/vprn/description">>,
          <<"nokia-conf", "configure/service/vprn/route-distinguisher">>,
          <<"nokia-conf", "configure/service/vprn/vrf-target">>>>
    ELSE IF vendor = "juniper" THEN
        <<<<"junos-conf-routing-instances", "configuration/routing-instances/instance/name">>,
          <<"junos-conf-routing-instances", "configuration/routing-instances/instance/instance-type">>,
          <<"junos-conf-routing-instances", "configuration/routing-instances/instance/route-distinguisher">>,
          <<"junos-conf-routing-instances", "configuration/routing-instances/instance/vrf-target">>>>
    ELSE
        <<<<"openconfig-network-instance", "network-instances/network-instance/name">>,
          <<"openconfig-network-instance", "network-instances/network-instance/config/type">>,
          <<"openconfig-network-instance", "network-instances/network-instance/config/route-distinguisher">>>>

\* YANGMapper._get_evpn_paths: a path "module:rest" is the pair <<module, rest>>
get_evpn_paths(vendor) ==
    IF vendor = "cisco" THEN
        <<<<"Cisco-IOS-XR-l2vpn-cfg", "l2vpn/database/bridge-domain-groups/bridge-domain-group">>,
          <<"Cisco-IOS-XR-l2vpn-cfg", "l2vpn/database/xconnect-groups/xconnect-group">>,
          <<"Cisco-IOS-XR-evpn-cfg", "evpn/enable">>,
          <<"Cisco-IOS-XR-evpn-cfg", "evpn/interfaces/interface">>>>
    ELSE IF vendor = "nokia" THEN
        <<<<"nokia-conf", "configure/service/epipe/service-id">>,
          <<"nokia-conf", "configure/service/vpls/service-id">>,
          <<"nokia-conf", "configure/service/epipe/bgp-evpn/evi">>,
          <<"nokia-conf", "configure/service/vpls/bgp-evpn/evi">>>>
    ELSE IF vendor = "juniper" THEN
        <<<<"junos-conf-protocols", "configuration/protocols/evpn/encapsulation">>,
          <<"junos-conf-protocols", "configuration/protocols/evpn/extended-vni-list">>,
          <<"junos-conf-routing-instances", "configuration/routing-instances/instance/protocols/evpn">>>>
    ELSE
        <<<<"openconfig-evpn", "evpn/global/config/enabled">>,
          <<"openconfig-network-instance", "network-instances/network-instance/evpn/config">>>>

\* YANGMapper._get_bgp_paths: a path "module:rest" is the pair <<module, rest>>
get_bgp_paths(vendor) ==
    IF vendor = "cisco" THEN
        <<<<"Cisco-IOS-XR-bgp-cfg", "bgp/instance/instance-as/four-byte-as">>,
          <<"Cisco-IOS-XR-bgp-cfg", "bgp/instance/instance-as/four-byte-as/default-vrf/global/router-id">>,
          <<"Cisco-IOS-XR-bgp-cfg", "bgp/instance/instance-as/four-byte-as/default-vrf/bgp-entity/neighbors/neighbor">>>>
    ELSE IF vendor = "nokia" THEN
        <<<<"nokia-conf", "configure/router/bgp/autonomous-system">>,
          <<"nokia-conf", "configure/router/bgp/router-id">>,
          <<"nokia-conf", "configure/router/bgp/group">>,
          <<"nokia-conf", "configure/router/bgp/neighbor">>>>
    ELSE IF vendor = "juniper" THEN
        <<<<"junos-conf-protocols", "configuration/protocols/bgp/group/name">>,
          <<"junos-conf-protocols", "configuration/protocols/bgp/group/neighbor">>,
          <<"junos-conf-routing-options", "configuration/routing-options/autonomous-system">>>>
    ELSE
        <<<<"openconfig-bgp", "bgp/global/config/as">>,
          <<"openconfig-bgp", "bgp/global/config/router-id">>,
          <<"openconfig-bgp", "bgp/neighbors/neighbor">>>>

\* YANGMapper._get_igp_paths (protocol isis): a path "module:rest" is the pair <<module, rest>>
get_isis_paths(vendor) ==
    IF vendor = "cisco" THEN
        <<<<"Cisco-IOS-XR-clns-isis-cfg", "isis/instances/instance/instance-name">>,
          <<"Cisco-IOS-XR-clns-isis-cfg", "isis/instances/instance/running/addresses/address">>,
          <<"Cisco-IOS-XR-clns-isis-cfg", "isis/instances/instance/running/interfaces/interface">>>>
    ELSE IF vendor = "nokia" THEN
        <<<<"nokia-conf", "configure/router/isis/instance">>,
          <<"nokia-conf", "configure/router/isis/area-address">>,
          <<"nokia-conf", "configure/router/isis/interface">>>>
    ELSE
        <<<<"openconfig-isis", "isis/global/config/instance">>,
          <<"openconfig-isis", "isis/global/afi-safi">>,
          <<"openconfig-isis", "isis/interfaces/interface">>>>

\* YANGMapper._get_igp_paths (protocol ospf): a path "module:rest" is the pair <<module, rest>>
get_ospf_paths(vendor) ==
    IF vendor = "cisco" THEN
        <<<<"Cisco-IOS-XR-ipv4-ospf-cfg", "ospf/processes/process/process-name">>,
          <<"Cisco-IOS-XR-ipv4-ospf-cfg", "ospf/processes/process/default-vrf/router-id">>,
          <<"Cisco-IOS-XR-ipv4-ospf-cfg", "ospf/processes/process/default-vrf/area-addresses/area-area-id">>>>
    ELSE IF vendor = "nokia" THEN
        <<<<"nokia-conf", "configure/router/ospf/instance">>,
          <<"nokia-conf", "configure/router/ospf/router-id">>,
          <<"nokia-conf", "configure/router/ospf/area">>>>
    ELSE
        <<<<"openconfig-ospfv2", "ospfv2/global/config/router-id">>,
          <<"openconfig-ospfv2", "ospfv2/areas/area">>,
          <<"openconfig-ospfv2", "ospfv2/areas/area/interfaces/interface">>>>

\* YANGMapper._get_bfd_paths: a path "module:rest" is the pair <<module, rest>>
get_bfd_paths(vendor) ==
    IF vendor = "cisco" THEN
        <<<<"Cisco-IOS-XR-ip-bfd-cfg", "bfd/ipv4bf-table/ipv4bf-mhop-table/ipv4bf-mhop/destination-address">>,
          <<"Cisco-IOS-XR-ip-bfd-cfg", "bfd/ipv4bf-table/ipv4bf-shfrom-table/ipv4bf-sh/source-address">>>>
    ELSE IF vendor = "nokia" THEN
        <<<<"nokia-conf", "configure/router/bfd/session-type">>,
          <<"nokia-conf", "configure/router/bfd/transmit-interval">>,
          <<"nokia-conf", "configure/router/bfd/receive-interval">>>>
    ELSE IF vendor = "juniper" THEN
        <<<<"junos-conf-protocols", "configuration/protocols/bfd/session">>,
          <<"junos-conf-protocols", "configuration/protocols/bfd/traceoptions">>>>
    ELSE
        <<<<"openconfig-bfd", "bfd/interfaces/interface">>,
          <<"openconfig-bfd", "bfd/ipv4-single-hop/sessions/session">>>>

\* YANGMapper._get_yang_paths_for_intent(intent, vendor, os_version,
\* discovery_results): the last two arguments are not read
get_yang_paths_for_intent(service_type, policy, vendor) ==
    LET value == ServiceValue(service_type)
        paths == IF value = "l3vpn" THEN get_l3vpn_paths(vendor)
                 ELSE IF value = "evpn" THEN get_evpn_paths(vendor)
                 ELSE IF value = "bgp" THEN get_bgp_paths(vendor)
                 ELSE IF value = "isis" THEN get_isis_paths(vendor)
                 ELSE IF value = "ospf" THEN get_ospf_paths(vendor)
                 ELSE <<>>
    IN IF bfd_requested(policy) THEN paths \o get_bfd_paths(vendor) ELSE paths

call_get_yang_paths_for_intent ==
    /\ unit_call.fn = None
    /\ \E service_type \in ServiceTypes, policy \in IntentPolicies, vendor \in Vendors :
      /\ unit_call' = [fn |-> "_get_yang_paths_for_intent", service_type |-> service_type,
                       policy |-> policy, vendor |-> vendor]
      /\ unit_result' = <<get_yang_paths_for_intent(service_type, policy, vendor)>>

\* MappingEntry reduced to the field the generator reads
MappingEntry(vendor) == [vendor |-> vendor]

\* the transport flags of a device record: netconf_enabled may be absent (<<>>)
GenFlags == [netconf_enabled : {<<>>, <<TRUE>>, <<FALSE>>}, restconf_enabled : BOOLEAN,
             gnmi_enabled : BOOLEAN]

\* a device record of the generator: device_id "pe<n>" is the pair <<"pe", n>>
GenDevice(n, flags) ==
    [device_id |-> <<"pe", n>>, netconf_enabled |-> flags.netconf_enabled,
     restconf_enabled |-> flags.restconf_enabled, gnmi_enabled |-> flags.gnmi_enabled]

\* faulty variant: gNMI is preferred to RESTCONF
determine_transport_gnmi_first(device) ==
    IF Get(device.netconf_enabled, TRUE) THEN "NETCONF"
    ELSE IF device.gnmi_enabled THEN "GNMI"
    ELSE IF device.restconf_enabled THEN "RESTCONF"
    ELSE "NETCONF"

\* ConfigGenerator._determine_transport(device)
determine_transport(device) ==
    IF Get(device.netconf_enabled, TRUE) THEN "NETCONF"
    ELSE IF device.restconf_enabled THEN "RESTCONF"
    ELSE IF device.gnmi_enabled THEN "GNMI"
    ELSE "NETCONF"

\* _extract_vrf_name(intent) for endpoints without a vrf: tag
extract_vrf_name(service_type) == <<"VRF_", service_type>>

\* _generate_netconf_payload: the template chosen and what is substituted
generate_netconf_payload(service_type, mapping, device) ==
    IF service_type = "L3VPN" THEN
        [template |-> IF mapping.vendor \in {"cisco", "nokia", "juniper"}
                      THEN <<mapping.vendor, "l3vpn_xml">> ELSE <<"openconfig", "l3vpn_xml">>,
         vrf_name |-> extract_vrf_name(service_type), device_id |-> device.device_id]
    ELSE IF service_type = "EVPN" THEN "<config><!-- EVPN config --></config>"
    ELSE IF service_type = "BGP" THEN "<config><!-- BGP config --></config>"
    ELSE "<config><!-- Generic config --></config>"

\* _generate_restconf_payload: json.dumps of the service type and the endpoints
generate_restconf_payload(service_type, endpoints) ==
    [json |-> [service_type |-> ServiceValue(service_type),
               endpoints |-> [k \in DOMAIN endpoints |->
                                [device |-> endpoints[k].device,
                                 interface |-> endpoints[k].interface]]]]

\* _generate_gnmi_payload: json.dumps of a Set on the network instance
generate_gnmi_payload(service_type) ==
    [json |-> [prefix |-> extract_vrf_name(service_type), string_val |-> "L3VRF"]]

\* _generate_prechecks(mapping, device)
generate_prechecks(mapping) ==
    <<"capability:urn:ietf:params:netconf:capability:candidate:1.0",
      "capability:urn:ietf:params:netconf:capability:validate:1.0">> \o
    (IF mapping.vendor = "cisco" THEN <<"feature:bgp-vpnv4">>
     ELSE IF mapping.vendor = "nokia" THEN <<"feature:service-vprn">> ELSE <<>>)

\* _generate_post_validation(intent, mapping, device)
generate_post_validation(service_type, policy) ==
    (IF service_type = "L3VPN"
     THEN <<<<"get-config filter", extract_vrf_name(service_type)>>,
            <<"operational check", extract_vrf_name(service_type)>>,
            <<"bgp check", extract_vrf_name(service_type)>>>>
     ELSE <<>>) \o
    (IF bfd_requested(policy) THEN <<"bfd check: sessions established">> ELSE <<>>)

\* line 75, 81, 87
payload_type(transport) ==
    IF transport = "NETCONF" THEN "xml" ELSE IF transport = "RESTCONF" THEN "json" ELSE "gnmi-set"

\* an intent of the generator: the fields it reads
GenIntent(service_type) ==
    [service_type |-> service_type, policy |-> <<>>,
     endpoints |-> extract_endpoints(<<>>, <<>>)]

\* ConfigGenerator._generate_device_payload(intent, mapping, device): None
\* (<<>>) when the rendering raised, else the payload
generate_device_payload(gen_intent, mapping, device, raised) ==
    LET transport == determine_transport(device)
        content == IF transport = "NETCONF"
                   THEN generate_netconf_payload(gen_intent.service_type, mapping, device)
                   ELSE IF transport = "RESTCONF"
                   THEN generate_restconf_payload(gen_intent.service_type, gen_intent.endpoints)
                   ELSE generate_gnmi_payload(gen_intent.service_type)
    IN IF raised THEN <<>>
       ELSE <<CandidatePayload(device.device_id, transport, payload_type(transport), content,
                               generate_prechecks(mapping),
                               generate_post_validation(gen_intent.service_type,
                                                        gen_intent.policy))>>

\* faulty variant: the mapping is taken at the place of the next payload
paired_mapping_by_payload(mapping_table, i, payloads) == mapping_table[Len(payloads) + 1]

\* line 47: mapping = mapping_table[i], i counted from 1 here
paired_mapping(mapping_table, i, payloads) == mapping_table[i]

\* ConfigGenerator.generate_payloads(intent, mapping_table, inventory), from
\* device i on with the payloads collected so far; raises holds the places of
\* the devices whose rendering raises
RECURSIVE generate_payloads_from(_, _, _, _, _, _)
generate_payloads_from(gen_intent, mapping_table, inv, raises, i, payloads) ==
    IF i > Len(inv) THEN payloads
    ELSE IF i - 1 < Len(mapping_table)
    THEN generate_payloads_from(gen_intent, mapping_table, inv, raises, i + 1,
             payloads \o generate_device_payload(gen_intent,
                             paired_mapping(mapping_table, i, payloads), inv[i], i \in raises))
    ELSE generate_payloads_from(gen_intent, mapping_table, inv, raises, i + 1, payloads)

generate_payloads(gen_intent, mapping_table, inv, raises) ==
    generate_payloads_from(gen_intent, mapping_table, inv, raises, 1, <<>>)

\* the inventories and mapping tables of generate_payloads hold up to
\* MaxGenDevices entries
MaxGenDevices == 3

\* one device record per outcome of _determine_transport
GenKinds ==
    {[netconf_enabled |-> <<>>, restconf_enabled |-> TRUE, gnmi_enabled |-> TRUE],
     [netconf_enabled |-> <<FALSE>>, restconf_enabled |-> TRUE, gnmi_enabled |-> TRUE],
     [netconf_enabled |-> <<FALSE>>, restconf_enabled |-> FALSE, gnmi_enabled |-> TRUE],
     [netconf_enabled |-> <<FALSE>>, restconf_enabled |-> FALSE, gnmi_enabled |-> FALSE]}

GenInventories ==
    UNION {{[n \in 1..k |-> GenDevice(n, kinds[n])] : kinds \in [1..k -> GenKinds]} :
           k \in 0..MaxGenDevices}

GenVendors == {"cisco", "nokia", "arista"}
GenMappingTables ==
    UNION {{[n \in 1..k |-> MappingEntry(vs[n])] : vs \in [1..k -> GenVendors]} :
           k \in 0..MaxGenDevices}

GenServiceTypes == {"L3VPN", "QOS"}

call_generate_device_payload ==
    /\ unit_call.fn = None
    /\ \E service_type \in ServiceTypes, vendor \in Vendors, flags \in GenFlags, raised \in BOOLEAN :
      /\ unit_call' = [fn |-> "_generate_device_payload", service_type |-> service_type,
                       mapping |-> MappingEntry(vendor), device |-> GenDevice(1, flags),
                       raised |-> raised]
      /\ unit_result' = generate_device_payload(GenIntent(service_type), MappingEntry(vendor),
                                                GenDevice(1, flags), raised)

call_generate_payloads ==
    /\ unit_call.fn = None
    /\ \E service_type \in GenServiceTypes, mapping_table \in GenMappingTables,
       inv \in GenInventories, raises \in SUBSET (1..MaxGenDevices) :
      /\ raises \subseteq DOMAIN inv
      /\ raises \subseteq DOMAIN mapping_table
      /\ unit_call' = [fn |-> "generate_payloads", service_type |-> service_type,
                       mapping_table |-> mapping_table, inventory |-> inv, raises |-> raises]
      /\ unit_result' = <<generate_payloads(GenIntent(service_type), mapping_table, inv, raises)>>

InitUnit == EngineInit /\ DiscoveryInit /\ RiskInit /\ UnitInit /\ PipeInit /\ ClientInit

NextUnit ==
    \/ call_create_commit_plan /\ UNCHANGED notUnit
    \/ call_create_audit_log /\ UNCHANGED notUnit
    \/ call_extract_endpoints /\ UNCHANGED notUnit
    \/ call_get_yang_paths_for_intent /\ UNCHANGED notUnit
    \/ call_generate_device_payload /\ UNCHANGED notUnit
    \/ call_generate_payloads /\ UNCHANGED notUnit

\* Direct calls of the synchronous functions, one after another.
SpecUnit == InitUnit /\ [][NextUnit]_vars

----------------------------------------------------------------------------
(***************************************************************************)
(* The pipeline (src/src/core/intent_processor.py,                         *)
(* IntentProcessor.process_intent).  The function is synchronous: each     *)
(* statement of its try block is one step, and a step that raises runs the *)
(* except clause in the same step.                                         *)
(***************************************************************************)

\* the statements of the try block, in order
Stages ==
    <<"normalize_intent", "assess_risks", "discover_models", "create_mapping_table",
      "generate_payloads", "create_commit_plan", "create_verification_plan",
      "create_audit_log", "serialize_response">>

\* the intent text by what the parser and _detect_service_type extract from it
IntentTexts ==
    [service_type : {"L3VPN", "BGP", "QOS"},
     devices : {<<>>, <<"PE1", "CE1">>},
     slo : {<<>>, <<[latency_ms |-> <<0>>]>>, <<[latency_ms |-> <<5>>]>>}]

\* the vendor strings of the inventory: "acme" is no member of Vendor
PipeVendors == {"cisco", "nokia", "acme"}

PipeKinds ==
    {[netconf_enabled |-> <<>>, restconf_enabled |-> FALSE, gnmi_enabled |-> FALSE],
     [netconf_enabled |-> <<FALSE>>, restconf_enabled |-> TRUE, gnmi_enabled |-> FALSE]}

\* a device record of the inventory
PipeDevice(n, vendor, flags) ==
    [device_id |-> <<"pe", n>>, vendor |-> vendor, netconf_enabled |-> flags.netconf_enabled,
     restconf_enabled |-> flags.restconf_enabled, gnmi_enabled |-> flags.gnmi_enabled]

PipeInventories ==
    UNION {{[n \in 1..k |-> PipeDevice(n, vs[n], ks[n])] :
              vs \in [1..k -> PipeVendors], ks \in [1..k -> PipeKinds]} : k \in 0..MaxDevices}

PipePolicies == {<<>>, <<[maintenance_window |-> <<"Sat 02:00-04:00">>]>>}

\* the stage in which a collaborator raises an exception, if any; the
\* serialization is not among them, it is never reached
Faults == {None} \cup {Stages[k] : k \in 1..(Len(Stages) - 1)}

\* _normalize_intent(intent_text, telemetry_hint)
normalize_intent(text) ==
    [service_type |-> text.service_type,
     endpoints |-> extract_endpoints(text.devices, <<>>),
     slo |-> text.slo,
     policy |-> <<[bfd |-> FALSE]>>]

\* the factors and mitigations _assess_risks collects
assess_factors(c) ==
    (IF core_routing(c) THEN <<"Core routing modification required">> ELSE <<>>) \o
    (IF multi_vendor(c) THEN <<"Multi-vendor environment detected">> ELSE <<>>) \o
    (IF no_maintenance_window(c) THEN <<"No maintenance window specified">> ELSE <<>>) \o
    (IF aggressive_slo(c) THEN <<"Aggressive SLO requirements">> ELSE <<>>)

assess_mitigations(c) ==
    (IF core_routing(c) THEN <<"Use confirmed-commit with auto-rollback">> ELSE <<>>) \o
    (IF multi_vendor(c) THEN <<"Validate vendor-specific YANG models">> ELSE <<>>) \o
    (IF no_maintenance_window(c) THEN <<"Schedule during low-traffic period">> ELSE <<>>) \o
    (IF aggressive_slo(c) THEN <<"Enable performance monitoring pre/post change">> ELSE <<>>)

\* _assess_risks(intent, inventory, policy)
assess_risks(normalized, inv, policy) ==
    LET c == [service_type |-> normalized.service_type,
              vendors |-> [k \in DOMAIN inv |-> inv[k].vendor],
              policy |-> policy, slo |-> normalized.slo]
    IN RiskAssessment(assess_level(c), assess_factors(c), assess_mitigations(c))

\* discover_models is an async def called without await: the value is the
\* coroutine object, no list of results
Coroutine(fn) == <<"coroutine", fn>>
IsList(value) == value[1] = "list"

\* YANGMapper.create_mappings(intent, discovery_results, inventory): a device
\* whose vendor is no member of Vendor is skipped
RECURSIVE create_mappings(_, _, _)
create_mappings(normalized, inv, k) ==
    IF k > Len(inv) THEN <<>>
    ELSE (IF inv[k].vendor \in Vendors
          THEN <<[vendor |-> inv[k].vendor,
                  yang_paths |-> get_yang_paths_for_intent(normalized.service_type,
                                                           normalized.policy, inv[k].vendor)]>>
          ELSE <<>>) \o create_mappings(normalized, inv, k + 1)

\* ValidationEngine.create_verification_plan(intent, inventory): the groups of
\* tests and telemetry queries it puts together
create_verification_plan(normalized) ==
    [tests |->
       (IF normalized.service_type = "L3VPN"
        THEN <<"l3vpn">> \o (IF Len(normalized.endpoints) >= 2 THEN <<"ping", "traceroute">>
                             ELSE <<>>)
        ELSE IF normalized.service_type = "BGP" THEN <<"bgp">> ELSE <<>>) \o
       (IF bfd_requested(normalized.policy) THEN <<"bfd">> ELSE <<>>) \o
       (IF normalized.slo # <<>> /\ normalized.slo[1].latency_ms \notin {<<>>, <<0>>}
        THEN <<"latency">> ELSE <<>>),
     telemetry_queries |->
       <<"interfaces">> \o
       (IF normalized.service_type = "L3VPN" THEN <<"network-instances">>
        ELSE IF normalized.service_type = "BGP" THEN <<"bgp">> ELSE <<>>)]

\* lines 79-87: the response of the except clause
error_response(e, text) ==
    [json |-> [error |-> e, intent_summary |-> text,
               risk_assessment |-> [level |-> "HIGH",
                                    factors |-> <<"Processing error encountered">>,
                                    mitigations |-> <<"Manual review required">>]]]

\* lines 64-76: json.dumps of the serialized IntentResponse
success_response(text, locals, log) ==
    [json |-> [intent_summary |-> text,
               risk_assessment |-> locals.risk_assessment,
               model_discovery |-> locals.model_discovery_results[2],
               normalized_intent |-> locals.normalized_intent,
               mapping_table |-> locals.mapping_table,
               candidate_payloads |-> locals.candidate_payloads,
               commit_plan |-> locals.commit_plan,
               verification_plan |-> locals.verification_plan,
               audit_log |-> log]]

\* faulty variant: the normalization stands before the try statement
in_try_after_normalize(stage) == stage # "normalize_intent"

\* lines 33-78: every stage is a statement of the try block
in_try(stage) == TRUE

process_intent_called ==
    /\ pipe_pc = "none"
    /\ \E text \in IntentTexts, inv \in PipeInventories, policy \in PipePolicies,
          fault \in Faults :
         pipe_call' = [text |-> text, inventory |-> inv, policy |-> policy, fault |-> fault]
    /\ pipe_pc' = Stages[1]
    /\ UNCHANGED <<pipe_locals, pipe_response>>

\* an exception e leaves the stage: the except clause returns the error
\* response if the stage is inside the try block
pipe_raise(stage, e) ==
    /\ pipe_locals' = [pipe_locals EXCEPT !.raised = <<stage, e>>]
    /\ IF in_try(stage)
       THEN /\ pipe_response' = <<error_response(e, pipe_call.text)>>
            /\ pipe_pc' = "returned"
       ELSE /\ pipe_pc' = "raised"
            /\ UNCHANGED pipe_response
    /\ UNCHANGED pipe_call

\* one statement of the try block: the local is assigned unless the stage raises
pipe_stage(k, name, value) ==
    /\ pipe_pc = Stages[k]
    /\ IF pipe_call.fault = Stages[k]
       THEN pipe_raise(Stages[k], "Exception")
       ELSE /\ pipe_locals' = [pipe_locals EXCEPT ![name] = value]
            /\ pipe_pc' = Stages[k + 1]
            /\ UNCHANGED <<pipe_call, pipe_response>>

process_normalize_intent ==
    pipe_stage(1, "normalized_intent", normalize_intent(pipe_call.text))

process_assess_risks ==
    pipe_stage(2, "risk_assessment",
               assess_risks(pipe_locals.normalized_intent, pipe_call.inventory, pipe_call.policy))

process_discover_models ==
    pipe_stage(3, "model_discovery_results", Coroutine("discover_models"))

process_create_mapping_table ==
    pipe_stage(4, "mapping_table",
               create_mappings(pipe_locals.normalized_intent, pipe_call.inventory, 1))

process_generate_payloads ==
    pipe_stage(5, "candidate_payloads",
               generate_payloads(pipe_locals.normalized_intent, pipe_locals.mapping_table,
                                 pipe_call.inventory, {}))

process_create_commit_plan ==
    pipe_stage(6, "commit_plan",
               create_commit_plan(pipe_locals.candidate_payloads, pipe_locals.risk_assessment,
                                  pipe_call.policy))

process_create_verification_plan ==
    pipe_stage(7, "verification_plan", create_verification_plan(pipe_locals.normalized_intent))

\* lines 60-76: _create_audit_log iterates discovery_results, then the response
\* is built and serialized
process_create_audit_log ==
    /\ pipe_pc = Stages[8]
    /\ IF pipe_call.fault = Stages[8]
       THEN pipe_raise(Stages[8], "Exception")
       ELSE IF ~IsList(pipe_locals.model_discovery_results)
       THEN pipe_raise(Stages[8], "TypeError: 'coroutine' object is not iterable")
       ELSE /\ \E sources \in ListsOfSet({r.source : r \in
                                            Range(pipe_locals.model_discovery_results[2])}) :
                 pipe_response' =
                   <<success_response(pipe_call.text, pipe_locals,
                        [timestamp |-> today, sources |-> sources,
                         hashes |-> audit_hashes(pipe_locals.candidate_payloads)])>>
            /\ pipe_pc' = "returned"
            /\ UNCHANGED <<pipe_call, pipe_locals>>

InitPipe == EngineInit /\ DiscoveryInit /\ RiskInit /\ UnitInit /\ PipeInit /\ ClientInit

NextPipe ==
    \/ process_intent_called /\ UNCHANGED notPipe
    \/ process_normalize_intent /\ UNCHANGED notPipe
    \/ process_assess_risks /\ UNCHANGED notPipe
    \/ process_discover_models /\ UNCHANGED notPipe
    \/ process_create_mapping_table /\ UNCHANGED notPipe
    \/ process_generate_payloads /\ UNCHANGED notPipe
    \/ process_create_commit_plan /\ UNCHANGED notPipe
    \/ process_create_verification_plan /\ UNCHANGED notPipe
    \/ process_create_audit_log /\ UNCHANGED notPipe

\* One call of process_intent.
SpecPipe == InitPipe /\ [][NextPipe]_vars

----------------------------------------------------------------------------
(***************************************************************************)
(* The NETCONF client in an `async with client:` block                     *)
(* (src/src/core/netconf_client.py 34-68), as discovery, validation,       *)
(* commit, confirm and rollback use it.  __aexit__ runs only when          *)
(* __aenter__ returned.                                                    *)
(***************************************************************************)

\* the operations that open a NETCONF client
ClientOperations == {"discovery", "validation", "commit", "confirm", "rollback"}

\* the block sends up to MaxRpcs RPCs
MaxRpcs == 3

\* the `async with` statement is reached: __aenter__ calls connect()
client_aenter ==
    /\ client_pc = "init"
    /\ \E op \in ClientOperations : client_op' = op
    /\ client_pc' = "asyncssh.connect"
    /\ UNCHANGED <<conn, session, client_rpcs, client_exit>>

\* connect() raised ConnectionError (line 59-60): __aenter__ raises, __aexit__
\* is not run, the except clause of the operation returns its failure result
connect_raised ==
    /\ client_pc' = "returned"
    /\ client_exit' = "connect failed"

\* lines 43-50: self.conn = await asyncssh.connect(...)
client_ssh_connect ==
    /\ client_pc = "asyncssh.connect"
    /\ \/ /\ conn' = "open"
          /\ client_pc' = "create_session"
          /\ UNCHANGED client_exit
       \/ /\ connect_raised
          /\ UNCHANGED conn
    /\ UNCHANGED <<client_op, session, client_rpcs>>

\* lines 52-55: self.session = await self.conn.create_session(...)
client_create_session ==
    /\ client_pc = "create_session"
    /\ \/ /\ session' = "open"
          /\ client_pc' = "exchange_hello"
          /\ UNCHANGED client_exit
       \/ /\ connect_raised
          /\ UNCHANGED session
    /\ UNCHANGED <<client_op, conn, client_rpcs>>

\* line 57: await self._exchange_hello(); writing to the session may raise
client_exchange_hello ==
    /\ client_pc = "exchange_hello"
    /\ \/ /\ client_pc' = "body"
          /\ UNCHANGED client_exit
       \/ connect_raised
    /\ UNCHANGED <<client_op, conn, session, client_rpcs>>

\* the body of the block sends an RPC: it returns true or false, or the body
\* raises
client_rpc ==
    /\ client_pc = "body"
    /\ Len(client_rpcs) < MaxRpcs
    /\ \/ \E ok \in BOOLEAN :
            /\ client_rpcs' = Append(client_rpcs, ok)
            /\ UNCHANGED <<client_pc, client_exit>>
       \/ /\ client_pc' = "__aexit__"
          /\ client_exit' = "exception"
          /\ UNCHANGED client_rpcs
    /\ UNCHANGED <<client_op, conn, session>>

\* the body of the block ends
client_body_ends ==
    /\ client_pc = "body"
    /\ client_pc' = "__aexit__"
    /\ client_exit' = IF \E k \in DOMAIN client_rpcs : ~client_rpcs[k]
                      THEN "rpc failed" ELSE "normal"
    /\ UNCHANGED <<client_op, conn, session, client_rpcs>>

\* lines 67-68: if hasattr(self, 'conn'): self.conn.close()
disconnect_conn(c) == IF c # "unset" THEN "closed" ELSE c

\* lines 62-68: disconnect(); _send_close_session swallows its exceptions
client_aexit ==
    /\ client_pc = "__aexit__"
    /\ session' = IF session # None THEN "closed" ELSE session
    /\ conn' = disconnect_conn(conn)
    /\ client_pc' = "returned"
    /\ UNCHANGED <<client_op, client_rpcs, client_exit>>

InitClient == EngineInit /\ DiscoveryInit /\ RiskInit /\ UnitInit /\ PipeInit /\ ClientInit

NextClient ==
    \/ client_aenter /\ UNCHANGED notClient
    \/ client_ssh_connect /\ UNCHANGED notClient
    \/ client_create_session /\ UNCHANGED notClient
    \/ client_exchange_hello /\ UNCHANGED notClient
    \/ client_rpc /\ UNCHANGED notClient
    \/ client_body_ends /\ UNCHANGED notClient
    \/ client_aexit /\ UNCHANGED notClient

\* One use of a NETCONF client by one operation.
SpecClient == InitClient /\ [][NextClient]_vars

----------------------------------------------------------------------------
(* Vocabulary of the properties *)

Running(p, name) == call[p].op = name
Returned(p, name) == call[p].op = name /\ pc[p] = "done"

HasRpc(s, name) == \E j \in DOMAIN s.rpcs : s.rpcs[j].rpc = name
RpcOk(s, name) == \E j \in DOMAIN s.rpcs : s.rpcs[j].rpc = name /\ s.rpcs[j].ok
RpcFailed(s, name) == \E j \in DOMAIN s.rpcs : s.rpcs[j].rpc = name /\ ~s.rpcs[j].ok

\* the item the session was opened for has its result in `results`
Reported(p, s) == Len(results[p]) >= s.item

SameEntry(t, a, b) ==
    /\ t \in DOMAIN a <=> t \in DOMAIN b
    /\ t \in DOMAIN a => a[t] = b[t]

Max(S) == CHOOSE x \in S : \A y \in S : y <= x

----------------------------------------------------------------------------
(* C1 *)

\* C1: in commit_configurations the commit RPC of a NETCONF session is sent
\* as the third RPC of the session, after an edit-config that returned success
\* and a validate("candidate") that returned success; in a session whose
\* validate failed no commit is issued, discard-changes is issued after the
\* validate, and the payload's CommitResult has success = false.
C1_CommitOnlyAfterValidate ==
    \A p \in Procs : Running(p, "commit_configurations") =>
      \A k \in DOMAIN sess[p] :
        LET s == sess[p][k]
            r == s.rpcs
        IN /\ \A j \in DOMAIN r : r[j].rpc = "commit" =>
                /\ j = 3
                /\ r[1].rpc = "edit_config" /\ r[1].ok
                /\ r[2].rpc = "validate" /\ r[2].arg = "candidate" /\ r[2].ok
           /\ (pc[p] = "commit" /\ idx[p] = s.item) =>
                /\ Len(r) = 2
                /\ r[1].rpc = "edit_config" /\ r[1].ok
                /\ r[2].rpc = "validate" /\ r[2].arg = "candidate" /\ r[2].ok
           /\ \A j \in DOMAIN r : (r[j].rpc = "validate" /\ ~r[j].ok) =>
                /\ ~HasRpc(s, "commit")
                /\ pc[p] # "commit" \/ idx[p] # s.item
                /\ Reported(p, s) =>
                     /\ \E m \in DOMAIN r : m > j /\ r[m].rpc = "discard_changes"
                     /\ ~results[p][s.item].success

C1_Witness ==
    \E p \in Procs :
      /\ Returned(p, "commit_configurations")
      /\ \E k \in DOMAIN sess[p] :
           /\ RpcFailed(sess[p][k], "validate")
           /\ HasRpc(sess[p][k], "discard_changes")
           /\ ~results[p][sess[p][k].item].success
      /\ \E k \in DOMAIN sess[p] : RpcOk(sess[p][k], "commit")

----------------------------------------------------------------------------
(* C2 *)

\* C2 as stated: after commit_configurations(confirmed=true) returned, the
\* registry holds the entry of a payload (its payload, its commit id, an expiry
\* of some registration time + T) if and only if the payload's CommitResult
\* has success = true.
C2_EntryIffSuccess ==
    \A p \in Procs : (Returned(p, "commit_configurations") /\ call[p].confirmed) =>
      \A k \in DOMAIN call[p].payloads :
        LET pl == call[p].payloads[k]
            holds == /\ pl.target \in DOMAIN active_commits
                     /\ active_commits[pl.target].payload = pl
                     /\ active_commits[pl.target].commit_id = results[p][k].commit_id
                     /\ \E at \in 0..now :
                          active_commits[pl.target].timeout = at + call[p].timeout_minutes
        IN holds <=> results[p][k].success

\* the registry when commit_configurations has returned
C2_AtReturn ==
    \A p \in Procs : Returned(p, "commit_configurations") =>
      \A t \in Targets :
        LET c == call[p]
            S == {k \in DOMAIN c.payloads : c.payloads[k].target = t /\ results[p][k].success}
        IN IF c.confirmed /\ S # {}
           THEN /\ t \in DOMAIN active_commits
                /\ active_commits[t].payload = c.payloads[Max(S)]
                /\ active_commits[t].commit_id = results[p][Max(S)].commit_id
                /\ \E at \in 0..now : active_commits[t].timeout = at + c.timeout_minutes
           ELSE SameEntry(t, active_commits, reg0[p])

\* the registry when commit_configurations records results
C2_AtRegistration ==
    \A p \in Procs :
      (call'[p].op = "commit_configurations" /\ Len(results'[p]) > Len(results[p])) =>
        LET c == call'[p]
            K == (Len(results[p]) + 1)..Len(results'[p])
        IN \A t \in Targets :
             LET S == {k \in K : c.payloads[k].target = t /\ results'[p][k].success}
             IN IF c.confirmed /\ S # {}
                THEN /\ t \in DOMAIN active_commits'
                     /\ active_commits'[t] =
                          [commit_id |-> results'[p][Max(S)].commit_id,
                           timeout |-> now + c.timeout_minutes,
                           payload |-> c.payloads[Max(S)]]
                ELSE SameEntry(t, active_commits', active_commits)

\* C2, amended: at the moment commit_configurations records the CommitResult
\* of a payload, with confirmed=true and success=true the registry entry of
\* the payload's target becomes {the result's commit id, now + T, the
\* payload}, and with confirmed=false or success=false the entry (or the
\* absence of one) is left as it was; so after the call returned, the
\* registry holds, for every target, the entry of the last payload of the
\* list for that target whose CommitResult has success = true (a later
\* successful payload for the same target overwrites an earlier one), and the
\* entry from before the call when there is no such payload.
C2_RegisterOnSuccess == [](C2_AtReturn) /\ [][C2_AtRegistration]_vars

C2_Witness ==
    \E p \in Procs :
      /\ Returned(p, "commit_configurations") /\ call[p].confirmed
      /\ Len(call[p].payloads) = 2
      /\ LET p1 == call[p].payloads[1]
             p2 == call[p].payloads[2]
         IN /\ p1.target # p2.target
            /\ results[p][1].success /\ ~results[p][2].success
            /\ p1.target \in DOMAIN active_commits
            /\ active_commits[p1.target].payload = p1
            /\ active_commits[p1.target].commit_id = results[p][1].commit_id
            /\ active_commits[p1.target].timeout = now + call[p].timeout_minutes
            /\ p2.target \in DOMAIN active_commits
            /\ active_commits[p2.target] = reg0[p][p2.target]

----------------------------------------------------------------------------
(* C3 *)

\* C3: after rollback_configurations(targets) returned, no target of the call
\* has an entry in get_active_commits(), whatever the device did.
C3_RollbackClearsRegistry ==
    \A p \in Procs : Returned(p, "rollback_configurations") =>
      \A i \in DOMAIN call[p].targets : call[p].targets[i] \notin DOMAIN get_active_commits

----------------------------------------------------------------------------
(* C4 *)

\* C4: confirm_commits opens a session for every target of the call that has a
\* registry entry when its turn comes (all registry entries when no targets
\* are given) and for no other, and issues exactly commit(confirmed=False) in
\* it; when the call returned, a target's entry is gone exactly when a
\* confirming commit on it returned success, every other entry is as it was
\* before the call, and every session has its CommitResult, with success =
\* true exactly when the commit RPC returned success.
C4_ConfirmRemovesOnSuccess ==
    \A p \in Procs : Running(p, "confirm_commits") =>
      /\ \A k \in DOMAIN sess[p] :
           LET s == sess[p][k]
           IN /\ s.device = call[p].targets[s.item]
              /\ s.device \in DOMAIN reg0[p]
              /\ Len(s.rpcs) <= 1
              /\ \A j \in DOMAIN s.rpcs :
                   s.rpcs[j].rpc = "commit" /\ s.rpcs[j].arg = "confirmed=False"
      /\ pc[p] = "done" =>
           /\ (~call[p].device_targets.given \/ call[p].device_targets.list = <<>>) =>
                {call[p].targets[i] : i \in DOMAIN call[p].targets} = DOMAIN reg0[p]
           /\ \A i \in DOMAIN call[p].targets :
                LET t == call[p].targets[i]
                    earlier == \E k \in DOMAIN sess[p] :
                                 /\ sess[p][k].item < i /\ sess[p][k].device = t
                                 /\ RpcOk(sess[p][k], "commit")
                IN (\E k \in DOMAIN sess[p] : sess[p][k].item = i)
                     <=> (t \in DOMAIN reg0[p] /\ ~earlier)
           /\ \A k \in DOMAIN sess[p] : sess[p][k].connected => Len(sess[p][k].rpcs) = 1
           /\ \A t \in Targets :
                IF \E k \in DOMAIN sess[p] : sess[p][k].device = t /\ RpcOk(sess[p][k], "commit")
                THEN t \notin DOMAIN active_commits
                ELSE SameEntry(t, active_commits, reg0[p])
           /\ Len(results[p]) = Len(sess[p])
           /\ \A k \in DOMAIN sess[p] :
                /\ results[p][k].device = sess[p][k].device
                /\ results[p][k].success = RpcOk(sess[p][k], "commit")

C4_Witness ==
    \E p \in Procs :
      /\ Returned(p, "confirm_commits")
      /\ \E k \in DOMAIN sess[p] :
           /\ RpcOk(sess[p][k], "commit")
           /\ results[p][k].success
           /\ sess[p][k].device \in DOMAIN reg0[p]
           /\ sess[p][k].device \notin DOMAIN active_commits
      /\ \E k \in DOMAIN sess[p] :
           /\ RpcFailed(sess[p][k], "commit") \/ ~sess[p][k].connected
           /\ ~results[p][k].success
           /\ sess[p][k].device \in DOMAIN active_commits
           /\ active_commits[sess[p][k].device] = reg0[p][sess[p][k].device]

----------------------------------------------------------------------------
(* C5 *)

\* C5: confirm_commits never issues the confirming commit RPC for, and never
\* reports success for, a registry entry whose expiry has already passed.
C5_NoConfirmAfterExpiry ==
    [][\A p \in Procs :
         /\ (Running(p, "confirm_commits") /\ pc[p] = "connect" /\ pc'[p] = "commit") =>
              ~(active_commits[Target(p)].timeout < now)
         /\ (/\ Running(p, "confirm_commits") /\ pc[p] = "commit"
             /\ Len(results'[p]) > Len(results[p])
             /\ results'[p][Len(results'[p])].success) =>
              ~(active_commits[Target(p)].timeout < now)]_vars

----------------------------------------------------------------------------
(* C6 *)

----------------------------------------------------------------------------
(* C7 *)

\* C7: with confirm, rollback, sweep and commit interleaving at every await,
\* a confirm whose commit RPC returned success reports success = true (no
\* confirm fails because its entry was removed between its membership check
\* and its delete).
C7_ConfirmNeverLosesEntry ==
    \A p \in Procs : Running(p, "confirm_commits") =>
      \A k \in 1..Len(results[p]) :
        RpcOk(sess[p][k], "commit") => results[p][k].success

----------------------------------------------------------------------------
(* C8 *)

\* C8: in commit_configurations, a session whose edit-config failed holds no
\* other RPC (no validate, commit or discard-changes); its payload's
\* CommitResult has success = false and an error message, and unless another
\* payload of the list registered the target, the target's registry entry (or
\* the absence of one) is as it was before the call.
C8_EditFailureAborts ==
    \A p \in Procs : Running(p, "commit_configurations") =>
      \A k \in DOMAIN sess[p] :
        LET s == sess[p][k]
        IN RpcFailed(s, "edit_config") =>
             /\ Len(s.rpcs) = 1
             /\ Reported(p, s) =>
                  /\ ~results[p][s.item].success
                  /\ results[p][s.item].error_message = "Failed to edit candidate configuration"
                  /\ (\A j \in 1..Len(results[p]) :
                        call[p].payloads[j].target = s.device => ~results[p][j].success)
                       => SameEntry(s.device, active_commits, reg0[p])

C8_Witness ==
    \E p \in Procs :
      /\ Returned(p, "commit_configurations") /\ call[p].confirmed
      /\ \E k \in DOMAIN sess[p] :
           /\ RpcFailed(sess[p][k], "edit_config")
           /\ ~results[p][sess[p][k].item].success
           /\ sess[p][k].device \notin DOMAIN active_commits

----------------------------------------------------------------------------
(* C9 *)

\* C9: whenever commit_configurations, or validate_configuration with
\* dry_run=false, has applied edit-config successfully and the following
\* validate failed, discard-changes was issued in that session before the
\* failure is reported.
C9_DiscardAfterFailedValidate ==
    \A p \in Procs :
      (\/ Running(p, "commit_configurations")
       \/ (Running(p, "validate_configuration") /\ ~call[p].dry_run)) =>
        \A k \in DOMAIN sess[p] :
          LET s == sess[p][k]
          IN (RpcOk(s, "edit_config") /\ RpcFailed(s, "validate") /\ Reported(p, s)) =>
               HasRpc(s, "discard_changes")

----------------------------------------------------------------------------
(* C10 *)

\* what the device of payload k did decides the payload's result
ExpectedCommitSuccess(p, k) ==
    LET pl == call[p].payloads[k]
    IN IF pl.transport = "GNMI" THEN TRUE
       ELSE IF pl.transport = "NETCONF"
            THEN \E m \in DOMAIN sess[p] :
                   /\ sess[p][m].item = k
                   /\ RpcOk(sess[p][m], "edit_config")
                   /\ RpcOk(sess[p][m], "validate")
                   /\ RpcOk(sess[p][m], "commit")
            ELSE FALSE

\* C10: commit_configurations returns one CommitResult per payload, in payload
\* order; each result is decided by what the payload's own device did; every
\* NETCONF payload got its session whatever happened to the others; a
\* discard-changes is issued only in a session whose own validate failed; and
\* the registry entry of a target that no successful payload registered is as
\* it was before the call.
C10_OneResultPerPayload ==
    \A p \in Procs : Returned(p, "commit_configurations") =>
      LET c == call[p]
      IN /\ Len(results[p]) = Len(c.payloads)
         /\ \A k \in DOMAIN c.payloads :
              /\ results[p][k].device = c.payloads[k].target
              /\ results[p][k].success = ExpectedCommitSuccess(p, k)
              /\ ~results[p][k].success => results[p][k].error_message # None
              /\ c.payloads[k].transport = "NETCONF" =>
                   Cardinality({m \in DOMAIN sess[p] : sess[p][m].item = k}) = 1
         /\ \A m \in DOMAIN sess[p] :
              /\ c.payloads[sess[p][m].item].transport = "NETCONF"
              /\ sess[p][m].device = c.payloads[sess[p][m].item].target
              /\ HasRpc(sess[p][m], "discard_changes") => RpcFailed(sess[p][m], "validate")
         /\ \A t \in Targets :
              (~\E k \in DOMAIN c.payloads :
                  c.payloads[k].target = t /\ results[p][k].success /\ c.confirmed)
                => SameEntry(t, active_commits, reg0[p])

C10_Witness ==
    \E p \in Procs :
      /\ Returned(p, "commit_configurations") /\ call[p].confirmed
      /\ Len(call[p].payloads) = 2
      /\ call[p].payloads[1].transport = "NETCONF"
      /\ call[p].payloads[2].transport = "NETCONF"
      /\ call[p].payloads[1].target # call[p].payloads[2].target
      /\ ~results[p][1].success
      /\ results[p][2].success
      /\ call[p].payloads[2].target \in DOMAIN active_commits
      /\ SameEntry(call[p].payloads[1].target, active_commits, reg0[p])

----------------------------------------------------------------------------
(* C11 *)

\* the NETCONF sessions of a validate_configuration call
NetconfValidation(p, s) ==
    /\ call[p].op = "validate_configuration"
    /\ call[p].payloads[s.item].transport = "NETCONF"

AllOk(s) == s.connected /\ \A j \in DOMAIN s.rpcs : s.rpcs[j].ok

\* C11: in validate_configuration a NETCONF session of a dry run carries
\* validate("candidate") and nothing else, never edit-config; a session of a
\* run that is no dry run starts with edit-config and carries validate only
\* after an edit-config that succeeded; the payload's ValidationResult has
\* success = true exactly when the session was established and every RPC
\* issued in it succeeded.
C11_ValidateOperations ==
    \A p \in Procs : Running(p, "validate_configuration") =>
      \A k \in DOMAIN sess[p] :
        LET s == sess[p][k]
            r == s.rpcs
            here == idx[p] = s.item /\ ~Reported(p, s)
        IN NetconfValidation(p, s) =>
             /\ call[p].dry_run =>
                  /\ Len(r) <= 1
                  /\ \A j \in DOMAIN r : r[j].rpc = "validate" /\ r[j].arg = "candidate"
                  /\ here => pc[p] # "edit_config"
             /\ ~call[p].dry_run =>
                  /\ Len(r) <= 2
                  /\ Len(r) >= 1 => r[1].rpc = "edit_config"
                  /\ Len(r) = 2 => r[2].rpc = "validate" /\ r[2].arg = "candidate" /\ r[1].ok
                  /\ (here /\ pc[p] = "validate") => (Len(r) = 1 /\ r[1].ok)
             /\ Reported(p, s) =>
                  /\ results[p][s.item].success = AllOk(s)
                  /\ s.connected => Len(r) >= 1
                  /\ (s.connected /\ ~call[p].dry_run /\ r[1].ok) => Len(r) = 2

C11_Witness ==
    \E p \in Procs :
      /\ Returned(p, "validate_configuration") /\ ~call[p].dry_run
      /\ \E k, m \in DOMAIN sess[p] :
           /\ NetconfValidation(p, sess[p][k]) /\ NetconfValidation(p, sess[p][m])
           /\ RpcFailed(sess[p][k], "edit_config") /\ ~HasRpc(sess[p][k], "validate")
           /\ ~results[p][sess[p][k].item].success
           /\ RpcOk(sess[p][m], "edit_config") /\ RpcOk(sess[p][m], "validate")
           /\ results[p][sess[p][m].item].success

\* a dry run that validated the candidate without applying anything
C11_WitnessDryRun ==
    \E p \in Procs :
      /\ Returned(p, "validate_configuration") /\ call[p].dry_run
      /\ \E k \in DOMAIN sess[p] :
           /\ NetconfValidation(p, sess[p][k])
           /\ RpcOk(sess[p][k], "validate")
           /\ results[p][sess[p][k].item].success

----------------------------------------------------------------------------
(* C12 *)

\* what happened to payload k alone decides the payload's result
ExpectedValidationSuccess(p, k) ==
    LET pl == call[p].payloads[k]
    IN IF pl.transport = "RESTCONF" THEN TRUE
       ELSE IF pl.transport \in {"NETCONF", "GNMI"}
            THEN \E m \in DOMAIN sess[p] : sess[p][m].item = k /\ AllOk(sess[p][m])
            ELSE FALSE

\* C12: validate_configuration ends by returning a list with exactly one
\* ValidationResult per payload, in payload order (while it runs the list has
\* one result for each payload before the current one); the result of a
\* payload is decided by what happened to that payload alone (a failed
\* validation, an unsupported transport and an exception give success = false);
\* and every NETCONF or gNMI payload got its own session whatever happened to
\* the payloads before it.
C12_OneResultPerPayload ==
    \A p \in Procs : Running(p, "validate_configuration") =>
      LET c == call[p]
      IN /\ pc[p] # "done" => Len(results[p]) = idx[p] - 1
         /\ pc[p] = "done" =>
              /\ Len(results[p]) = Len(c.payloads)
              /\ \A k \in DOMAIN c.payloads :
                   /\ c.payloads[k].transport \in {"NETCONF", "GNMI"} =>
                        Cardinality({m \in DOMAIN sess[p] : sess[p][m].item = k}) = 1
         /\ \A k \in DOMAIN results[p] :
              /\ results[p][k].test_name.target = c.payloads[k].target
              /\ results[p][k].success = ExpectedValidationSuccess(p, k)

C12_Witness ==
    \E p \in Procs :
      /\ Returned(p, "validate_configuration")
      /\ Len(call[p].payloads) = 2
      /\ call[p].payloads[1].transport = UnsupportedTransport
      /\ call[p].payloads[2].transport = "NETCONF"
      /\ ~results[p][1].success
      /\ results[p][2].success

\* an exception on the first payload (no JSON in a gNMI payload), a failed
\* connection on the second
C12_WitnessException ==
    \E p \in Procs :
      /\ Returned(p, "validate_configuration")
      /\ Len(sess[p]) = 2
      /\ RpcFailed(sess[p][1], "json_loads")
      /\ ~sess[p][2].connected
      /\ ~results[p][1].success /\ ~results[p][2].success

----------------------------------------------------------------------------
(* Vocabulary of the discovery properties *)

Done(d) == d \in DOMAIN tasks /\ tasks[d].pc = "done"
Result(d) == tasks[d].result[1]

SourceTag(b) ==
    IF b = "NETCONF" THEN "on-device-netconf"
    ELSE IF b = "GNMI" THEN "on-device-gnmi"
    ELSE IF b = "RESTCONF" THEN "on-device-restconf"
    ELSE "repository"

\* the chain in the words of the claim
ChainOf(device) ==
    IF device.netconf_enabled \in {<<>>, <<TRUE>>} THEN "NETCONF"
    ELSE IF device.gnmi_enabled THEN "GNMI"
    ELSE IF device.restconf_enabled THEN "RESTCONF"
    ELSE "repository"

AllFlagsFalse(device) ==
    /\ device.netconf_enabled = <<FALSE>>
    /\ ~device.gnmi_enabled
    /\ ~device.restconf_enabled

----------------------------------------------------------------------------
(* C13 *)

\* C13: the result of a device whose live discovery raised an exception (the
\* NETCONF connection raised, the gNMI client could not be constructed) has
\* source = "repository-fallback" and the required models that the repository
\* resolution found.
C13_LiveFailureFallsBack ==
    \A d \in DOMAIN tasks :
      (Done(d) /\ tasks[d].live /\ tasks[d].live_raised) =>
        /\ Result(d).source = "repository-fallback"
        /\ tasks[d].handler

----------------------------------------------------------------------------
(* C14 *)

\* C14 as stated: the result of a device has the transport and the source tag
\* of the branch that the device's flags choose (NETCONF when netconf_enabled
\* is true or absent, else gNMI, else RESTCONF, else the repository), and the
\* result of a device with all three flags false has source = "repository".
C14_BranchByFlags ==
    \A d \in DOMAIN tasks : Done(d) =>
      LET b == ChainOf(inventory[d])
      IN /\ Result(d).source = SourceTag(b)
         /\ b # "repository" => Result(d).transport = b
         /\ AllFlagsFalse(inventory[d]) => Result(d).source = "repository"

\* C14, amended: the branch is chosen by the flags as stated and exactly one
\* branch runs; the result has the transport of the branch (NETCONF for the
\* repository branch) and the source tag of the branch, except that a
\* repository resolution that raised is run a second time by the handler and
\* the result is then tagged "repository-fallback"; the handler runs for no
\* device of a live branch.
C14_BranchByFlagsUnlessRaised ==
    \A d \in DOMAIN tasks :
      LET b == ChainOf(inventory[d])
          t == tasks[d]
      IN /\ (t.pc \in {"connect", "get_schema", "disconnect"}) => b = "NETCONF"
         /\ t.pc = "fetch" => b = "repository"
         /\ t.handler => b = "repository"
         /\ Done(d) =>
              /\ Result(d).source =
                     (IF t.handler THEN "repository-fallback" ELSE SourceTag(b))
              /\ Result(d).transport = (IF b = "repository" THEN "NETCONF" ELSE b)
              /\ (AllFlagsFalse(inventory[d]) /\ ~t.handler) =>
                     Result(d).source = "repository"

C14_Witness ==
    /\ dpc = "returned" /\ Len(inventory) = 2
    /\ inventory[1].netconf_enabled = <<FALSE>> /\ inventory[1].gnmi_enabled
    /\ AllFlagsFalse(inventory[2])
    /\ Len(valid_results) = 2
    /\ valid_results[1].source = "on-device-gnmi"
    /\ valid_results[2].source = "repository"

----------------------------------------------------------------------------
(* C15 *)

\* the models required by the intent's (service type, vendor) pair
RequiredOf(d) == Range(get_required_models(intent.service_type, Lower(inventory[d].vendor)))

\* C15: in every result, on every branch, gaps is non-empty when some model
\* required by the intent's (service type, vendor) pair is not in
\* models_found.
C15_GapsWhenModelMissing ==
    \A d \in DOMAIN tasks : Done(d) =>
      ((\E m \in RequiredOf(d) : m \notin Result(d).models_found)
         => Result(d).gaps # {})

----------------------------------------------------------------------------
(* C16 *)

\* C16: discover_models returns one result per inventory device, the result
\* at index i being that of device i, whatever happened in the coroutines of
\* the devices.
C16_OneResultPerDevice ==
    dpc = "returned" =>
      /\ Len(valid_results) = Len(inventory)
      /\ \A i \in DOMAIN valid_results : valid_results[i].target = i

----------------------------------------------------------------------------
(* C17 *)

\* C17: no remote fetch is started for a (vendor, model) that was fetched and
\* written to the cache at most max_age_days earlier.
C17_NoFetchAfterPut ==
    \A d \in DOMAIN tasks : ~tasks[d].miss_after_put

----------------------------------------------------------------------------
(* Vocabulary of the risk properties *)

LevelRank(l) == IF l = "LOW" THEN 1 ELSE IF l = "MEDIUM" THEN 2 ELSE 3

Conditions == {"core_routing", "multi_vendor", "no_maintenance_window", "aggressive_slo"}

\* the arguments c with the conditions of off made not to hold: a service type
\* outside core routing, a single vendor, a maintenance window, no SLO
Without(c, off) ==
    [service_type |-> IF "core_routing" \in off THEN "BGP" ELSE c.service_type,
     vendors |-> IF "multi_vendor" \in off THEN <<"cisco">> ELSE c.vendors,
     policy |-> IF "no_maintenance_window" \in off
                THEN <<[maintenance_window |-> <<"Sat 02:00-04:00">>]>> ELSE c.policy,
     slo |-> IF "aggressive_slo" \in off THEN <<>> ELSE c.slo]

Returned_risk == risk_pc = "returned"
Assessment == risk_assessment[1]

InSeq(x, s) == \E i \in DOMAIN s : s[i] = x

\* slo.latencyMs is present and less than 10
LatencyUnderBound(c) ==
    /\ c.slo # <<>>
    /\ c.slo[1].latency_ms # <<>>
    /\ c.slo[1].latency_ms[1] < latency_bound

----------------------------------------------------------------------------
(* C18 *)

\* the level returned is at least the level of the same arguments with any of
\* the four conditions taken away
C18_AtReturn ==
    Returned_risk =>
      \A off \in SUBSET Conditions :
        LevelRank(Assessment.level) >= LevelRank(assess_level(Without(risk_call, off)))

\* no statement of the assessment lowers the level
C18_Step == LevelRank(level') >= LevelRank(level)

\* C18: within one risk assessment the level never decreases from one
\* statement to the next, and for every combination of the four conditions the
\* level returned is greater than or equal to the level returned for any
\* subset of the conditions that hold.
C18_LevelMonotonic == [](C18_AtReturn) /\ [][C18_Step]_vars

C18_Witness ==
    /\ Returned_risk
    /\ core_routing(risk_call) /\ multi_vendor(risk_call)
    /\ no_maintenance_window(risk_call) /\ aggressive_slo(risk_call)
    /\ Assessment.level = "HIGH"
    /\ assess_level(Without(risk_call, {"aggressive_slo"})) = "MEDIUM"
    /\ assess_level(Without(risk_call, Conditions)) = "LOW"

----------------------------------------------------------------------------
(* C19 *)

\* C19: the statement for the multi-vendor condition, when the inventory has
\* more than one distinct vendor, appends the multi-vendor factor and
\* mitigation and raises the level to MEDIUM if it was LOW and to HIGH if it
\* was MEDIUM or higher.
C19_MultiVendorRaises ==
    [][(risk_pc = "multi_vendor" /\ multi_vendor(risk_call)) =>
         /\ factors' = Append(factors, "Multi-vendor environment detected")
         /\ mitigations' = Append(mitigations, "Validate vendor-specific YANG models")
         /\ level' = (IF level = "LOW" THEN "MEDIUM" ELSE "HIGH")]_vars

----------------------------------------------------------------------------
(* C20 *)

\* C20: for every intent whose slo.latency_ms is present and less than 10
\* (0 included) the assessment returned has the aggressive-SLO factor and
\* mitigation and the level HIGH.
C20_LowLatencyIsHigh ==
    (Returned_risk /\ LatencyUnderBound(risk_call)) =>
      /\ Assessment.level = "HIGH"
      /\ InSeq("Aggressive SLO requirements", Assessment.factors)
      /\ InSeq("Enable performance monitoring pre/post change", Assessment.mitigations)

----------------------------------------------------------------------------
(* C21 *)

\* one of the four if statements of the assessment triggered
AnyTriggered(c) ==
    core_routing(c) \/ multi_vendor(c) \/ no_maintenance_window(c) \/ aggressive_slo(c)

DefaultPair(a) ==
    /\ a.factors = <<"Standard configuration change">>
    /\ a.mitigations = <<"Follow standard procedures">>

\* C21: every RiskAssessment returned has non-empty factors and non-empty
\* mitigations of equal length; it carries the default pair if and only if
\* none of the four conditions triggered, and then its level is LOW.
C21_NeverEmpty ==
    Returned_risk =>
      /\ Len(Assessment.factors) >= 1
      /\ Len(Assessment.mitigations) = Len(Assessment.factors)
      /\ DefaultPair(Assessment) <=> ~AnyTriggered(risk_call)
      /\ InSeq("Standard configuration change", Assessment.factors) <=> ~AnyTriggered(risk_call)
      /\ InSeq("Follow standard procedures", Assessment.mitigations) <=> ~AnyTriggered(risk_call)
      /\ DefaultPair(Assessment) => Assessment.level = "LOW"

C21_Witness ==
    /\ Returned_risk
    /\ ~AnyTriggered(risk_call)
    /\ DefaultPair(Assessment)
    /\ Assessment.level = "LOW"

C21_WitnessTriggered ==
    /\ Returned_risk
    /\ core_routing(risk_call) /\ aggressive_slo(risk_call)
    /\ Len(Assessment.factors) >= 2
    /\ ~DefaultPair(Assessment)

----------------------------------------------------------------------------
(* Vocabulary of the properties of the directly called functions *)

Called(fn) == unit_call.fn = fn
Returned_value == unit_result[1]

----------------------------------------------------------------------------
(* C24 *)

\* C24: the commit plan has the strategy "dry-run+manual-review+staged-commit"
\* and the rollback timeout 120 exactly when the risk level is HIGH, otherwise
\* "candidate+validate+confirmed-commit" and 300; its batching is "per-vendor"
\* exactly when there are more than 5 payloads, otherwise "all-at-once".
C24_CommitPlan ==
    Called("_create_commit_plan") =>
      LET plan == Returned_value
          high == unit_call.risk.level = "HIGH"
          many == Len(unit_call.payloads) > 5
      IN /\ high => (plan.strategy = "dry-run+manual-review+staged-commit"
                     /\ plan.rollback.timeout_seconds = 120)
         /\ ~high => (plan.strategy = "candidate+validate+confirmed-commit"
                      /\ plan.rollback.timeout_seconds = 300)
         /\ many => plan.batching = "per-vendor"
         /\ ~many => plan.batching = "all-at-once"

C24_Witness ==
    /\ Called("_create_commit_plan")
    /\ unit_call.risk.level = "HIGH"
    /\ Len(unit_call.payloads) = 6
    /\ Returned_value.batching = "per-vendor"
    /\ Returned_value.rollback.timeout_seconds = 120

C24_WitnessStandard ==
    /\ Called("_create_commit_plan")
    /\ unit_call.risk.level = "MEDIUM"
    /\ Len(unit_call.payloads) = 5
    /\ Returned_value.batching = "all-at-once"
    /\ Returned_value.rollback.timeout_seconds = 300

----------------------------------------------------------------------------
(* C25 *)

\* the SHA-256 digest of a payload body
Digest(body) == sha256_hexdigest(encode(body))

\* C25: the audit log has exactly one hash entry per candidate payload, keyed
\* by the payload's index (from 0), whose value is the SHA-256 digest of that
\* payload's body; its sources hold every source tag of the discovery results
\* and each tag at most once.
C25_AuditLog ==
    Called("_create_audit_log") =>
      LET log == Returned_value
          payloads == unit_call.payloads
          discovered == unit_call.discovery_results
      IN /\ DOMAIN log.hashes = {payload_key(i) : i \in 0..(Len(payloads) - 1)}
         /\ \A i \in DOMAIN payloads :
              log.hashes[payload_key(i - 1)] = Digest(payloads[i].payload)
         /\ \A i, j \in DOMAIN log.sources : log.sources[i] = log.sources[j] => i = j
         /\ Range(log.sources) = {discovered[i].source : i \in DOMAIN discovered}

C25_Witness ==
    /\ Called("_create_audit_log")
    /\ Len(unit_call.payloads) = 2
    /\ unit_call.payloads[1].payload # unit_call.payloads[2].payload
    /\ unit_call.payloads[1].target = unit_call.payloads[2].target
    /\ Len(unit_call.discovery_results) = 2
    /\ unit_call.discovery_results[1].source = unit_call.discovery_results[2].source
    /\ Len(Returned_value.sources) = 1
    /\ Returned_value.hashes[payload_key(0)] # Returned_value.hashes[payload_key(1)]

----------------------------------------------------------------------------
(* C26 *)

\* C26: the endpoints are never empty; with no extracted device they are the
\* single placeholder auto/auto tagged auto-discovered; with n >= 1 devices
\* there are exactly n endpoints in device order, endpoint i (from 0) taking
\* interface i when i is less than the number of interfaces and "auto"
\* otherwise.
C26_Endpoints ==
    Called("_extract_endpoints") =>
      LET endpoints == Returned_value
          devices == unit_call.devices
          interfaces == unit_call.interfaces
      IN /\ Len(endpoints) >= 1
         /\ devices = <<>> =>
              endpoints = <<[device |-> "auto", interface |-> "auto",
                             tags |-> <<"auto-discovered">>]>>
         /\ devices # <<>> =>
              /\ Len(endpoints) = Len(devices)
              /\ \A i \in 0..(Len(devices) - 1) :
                   /\ endpoints[i + 1].device = devices[i + 1]
                   /\ i < Len(interfaces) => endpoints[i + 1].interface = interfaces[i + 1]
                   /\ i >= Len(interfaces) => endpoints[i + 1].interface = "auto"

C26_Witness ==
    /\ Called("_extract_endpoints")
    /\ Len(unit_call.devices) = 3
    /\ Len(unit_call.interfaces) = 2
    /\ unit_call.interfaces[1] # unit_call.interfaces[2]
    /\ Returned_value[2].interface = unit_call.interfaces[2]
    /\ Returned_value[3].interface = "auto"

C26_WitnessPlaceholder ==
    /\ Called("_extract_endpoints")
    /\ unit_call.devices = <<>>
    /\ unit_call.interfaces # <<>>
    /\ Len(Returned_value) = 1
    /\ Returned_value[1].device = "auto"

----------------------------------------------------------------------------
(* C27 *)

\* the modules of the paths by the prefix of their name
ModulesOf(family) ==
    IF family = "cisco" THEN
    {"Cisco-IOS-XR-bgp-cfg", "Cisco-IOS-XR-clns-isis-cfg",
     "Cisco-IOS-XR-evpn-cfg", "Cisco-IOS-XR-infra-rsi-cfg",
     "Cisco-IOS-XR-ip-bfd-cfg", "Cisco-IOS-XR-ipv4-ospf-cfg",
     "Cisco-IOS-XR-l2vpn-cfg", "Cisco-IOS-XR-mpls-vpn-cfg"}
    ELSE IF family = "nokia" THEN
    {"nokia-conf"}
    ELSE IF family = "juniper" THEN
    {"junos-conf-protocols", "junos-conf-routing-instances",
     "junos-conf-routing-options"}
    ELSE
    {"openconfig-bfd", "openconfig-bgp",
     "openconfig-evpn", "openconfig-isis",
     "openconfig-network-instance", "openconfig-ospfv2"}

\* the (vendor, service type) pairs that have a set of their own
Tabulated(vendor, service_type) ==
    \/ service_type \in {"L3VPN", "EVPN", "BGP"} /\ vendor \in {"cisco", "nokia", "juniper"}
    \/ service_type \in {"ISIS", "OSPF"} /\ vendor \in {"cisco", "nokia"}

\* C27: for every vendor and every one of the eleven service types, with BFD
\* not requested, the paths returned are not empty: they are paths of the
\* vendor's own modules where the pair is tabulated and paths of the
\* OpenConfig/IETF modules for every pair that is not.
C27_PathsNeverEmpty ==
    (Called("_get_yang_paths_for_intent") /\ ~bfd_requested(unit_call.policy)) =>
      LET paths == Returned_value
          own == Tabulated(unit_call.vendor, unit_call.service_type)
      IN /\ Len(paths) >= 1
         /\ own => \A i \in DOMAIN paths : paths[i][1] \in ModulesOf(unit_call.vendor)
         /\ ~own => \A i \in DOMAIN paths : paths[i][1] \in ModulesOf("neutral")

----------------------------------------------------------------------------
(* C28 *)

\* the places of the inventory that yield a payload: within the mapping table
\* and rendered without an exception
KeptPlaces == {i \in DOMAIN unit_call.inventory :
                 i <= Len(unit_call.mapping_table) /\ i \notin unit_call.raises}

\* the feature precheck that rendering with a mapping of this vendor adds
FeatureOf(vendor) ==
    IF vendor = "cisco" THEN {"feature:bgp-vpnv4"}
    ELSE IF vendor = "nokia" THEN {"feature:service-vprn"} ELSE {}

Features == {"feature:bgp-vpnv4", "feature:service-vprn"}

\* C28: generate_payloads yields a payload for place i only when i is within
\* the mapping table; the payload's target is the device id of inventory[i]
\* and it is rendered with mapping_table[i]; devices beyond the mapping table
\* and devices whose rendering raised are omitted; the payloads keep the order
\* of the inventory.
C28_PairedByIndex ==
    Called("generate_payloads") =>
      LET payloads == Returned_value
          inv == unit_call.inventory
          place(j) == payloads[j].target[2]
      IN /\ Len(payloads) = Cardinality(KeptPlaces)
         /\ {place(j) : j \in DOMAIN payloads} = KeptPlaces
         /\ \A j, k \in DOMAIN payloads : j < k => place(j) < place(k)
         /\ \A j \in DOMAIN payloads :
              /\ payloads[j].target = inv[place(j)].device_id
              /\ Range(payloads[j].prechecks) \cap Features =
                   FeatureOf(unit_call.mapping_table[place(j)].vendor)

C28_Witness ==
    /\ Called("generate_payloads")
    /\ Len(unit_call.inventory) = 3
    /\ Len(unit_call.mapping_table) = 3
    /\ unit_call.raises = {2}
    /\ unit_call.mapping_table[1].vendor = "arista"
    /\ unit_call.mapping_table[2].vendor = "cisco"
    /\ unit_call.mapping_table[3].vendor = "nokia"
    /\ Len(Returned_value) = 2
    /\ Returned_value[2].target = <<"pe", 3>>
    /\ "feature:service-vprn" \in Range(Returned_value[2].prechecks)

C28_WitnessShortTable ==
    /\ Called("generate_payloads")
    /\ Len(unit_call.inventory) = 3
    /\ Len(unit_call.mapping_table) = 1
    /\ unit_call.raises = {}
    /\ Len(Returned_value) = 1
    /\ Returned_value[1].target = <<"pe", 1>>

----------------------------------------------------------------------------
(* C29 *)

\* the preference NETCONF > RESTCONF > gNMI in the words of the claim
PreferredTransport(device) ==
    IF device.netconf_enabled \in {<<>>, <<TRUE>>} THEN "NETCONF"
    ELSE IF device.restconf_enabled THEN "RESTCONF"
    ELSE IF device.gnmi_enabled THEN "GNMI"
    ELSE "NETCONF"

\* C29: the payload of a device has the transport NETCONF when
\* netconf_enabled is true or unspecified, else RESTCONF when restconf_enabled,
\* else GNMI when gnmi_enabled, and NETCONF when no flag is enabled; its
\* payload_type is xml, json or gnmi-set accordingly.
C29_TransportPreference ==
    (Called("_generate_device_payload") /\ ~unit_call.raised) =>
      LET payload == Returned_value
          preferred == PreferredTransport(unit_call.device)
      IN /\ payload.transport = preferred
         /\ preferred = "NETCONF" => payload.payload_type = "xml"
         /\ preferred = "RESTCONF" => payload.payload_type = "json"
         /\ preferred = "GNMI" => payload.payload_type = "gnmi-set"

C29_Witness ==
    /\ Called("_generate_device_payload")
    /\ ~unit_call.raised
    /\ unit_call.device.netconf_enabled = <<FALSE>>
    /\ unit_call.device.restconf_enabled
    /\ unit_call.device.gnmi_enabled
    /\ Returned_value.transport = "RESTCONF"
    /\ Returned_value.payload_type = "json"

C29_WitnessGnmi ==
    /\ Called("_generate_device_payload")
    /\ ~unit_call.raised
    /\ unit_call.device.netconf_enabled = <<FALSE>>
    /\ ~unit_call.device.restconf_enabled
    /\ unit_call.device.gnmi_enabled
    /\ Returned_value.transport = "GNMI"
    /\ Returned_value.payload_type = "gnmi-set"

C29_WitnessNoFlag ==
    /\ Called("_generate_device_payload")
    /\ ~unit_call.raised
    /\ unit_call.device.netconf_enabled = <<FALSE>>
    /\ ~unit_call.device.restconf_enabled
    /\ ~unit_call.device.gnmi_enabled
    /\ Returned_value.transport = "NETCONF"

----------------------------------------------------------------------------
(* Vocabulary of the pipeline properties *)

PipeReturned == pipe_pc = "returned"
Response == pipe_response[1].json
IsErrorResponse(r) == "error" \in DOMAIN r
StageRaised == pipe_locals.raised # <<>>

----------------------------------------------------------------------------
(* C22 *)

\* C22: process_intent never raises past its boundary: when a stage raised an
\* exception the call returns, and the response returned is the error
\* response, whose risk_assessment has the level HIGH and the manual-review
\* mitigation.
C22_NeverRaises ==
    /\ pipe_pc # "raised"
    /\ StageRaised =>
         /\ PipeReturned
         /\ IsErrorResponse(Response)
         /\ Response.risk_assessment.level = "HIGH"
         /\ InSeq("Manual review required", Response.risk_assessment.mitigations)

C22_Witness ==
    /\ PipeReturned
    /\ pipe_call.fault = "normalize_intent"
    /\ pipe_locals.raised[1] = "normalize_intent"
    /\ IsErrorResponse(Response)

C22_WitnessLate ==
    /\ PipeReturned
    /\ pipe_call.fault = "create_verification_plan"
    /\ pipe_locals.raised[1] = "create_verification_plan"
    /\ Response.risk_assessment.level = "HIGH"

----------------------------------------------------------------------------
(* C23 *)

\* an L3VPN intent, two devices of the vendors cisco and nokia, no
\* maintenance window, no collaborator raising
ScenarioA ==
    /\ pipe_call.text.service_type = "L3VPN"
    /\ pipe_call.text.slo = <<>>
    /\ Len(pipe_call.inventory) = 2
    /\ {pipe_call.inventory[1].vendor, pipe_call.inventory[2].vendor} = {"cisco", "nokia"}
    /\ pipe_call.policy = <<>>
    /\ pipe_call.fault = None

\* C23: for an L3VPN intent on an inventory of a Cisco and a Nokia device with
\* no maintenance window, process_intent completes all stages and returns a
\* response that is no error response, with service type L3VPN, risk level
\* MEDIUM, one model discovery result per device and exactly two candidate
\* payloads.
C23_ScenarioACompletes ==
    (PipeReturned /\ ScenarioA) =>
      /\ ~StageRaised
      /\ ~IsErrorResponse(Response)
      /\ Response.normalized_intent.service_type = "L3VPN"
      /\ Response.risk_assessment.level = "MEDIUM"
      /\ Len(Response.model_discovery) = 2
      /\ Len(Response.candidate_payloads) = 2

----------------------------------------------------------------------------
(* C30 *)

\* C30: when the operation that used a transport client has returned, every
\* connection the client opened is released, on every exit path: normal
\* return, RPC failure, an exception in the block, and a connect that failed
\* after the SSH connection was established.
C30_ConnectionsReleased ==
    client_pc = "returned" => (conn # "open" /\ session # "open")

----------------------------------------------------------------------------
(***************************************************************************)
(* commit_configurations on payloads that carry their prechecks.  The      *)
(* payloads are the ones ConfigGenerator renders: CandidatePayload has the *)
(* field `prechecks`, a list of capability URIs and feature flags          *)
(* (config_generator.py 388-401).  A device advertises a set of them.      *)
(***************************************************************************)

\* the vendors whose payloads are committed
PrecheckVendors == {"cisco", "nokia"}

\* what a device advertises in its hello and as features: d1 is a Cisco
\* device with the candidate datastore, validate and its VPN feature, d2 is a
\* Nokia device without the validate capability
Advertises(t) ==
    IF t = "d1" THEN Range(generate_prechecks(MappingEntry("cisco")))
    ELSE {"capability:urn:ietf:params:netconf:capability:candidate:1.0",
          "feature:service-vprn"}

\* the payloads of generate_payloads for a mapping of vendor v, reduced to the
\* fields the engine reads and the prechecks
PrecheckPayloadSet ==
    {[target |-> t, transport |-> tr, prechecks |-> generate_prechecks(MappingEntry(v))] :
        t \in Targets, tr \in {"NETCONF", "GNMI"}, v \in PrecheckVendors}

PrecheckPayloadLists == SeqsUpTo(PrecheckPayloadSet, 1)

PrechecksHold(payload) == Range(payload.prechecks) \subseteq Advertises(payload.target)

precheck_commit_configurations(p) ==
    \E pls \in PrecheckPayloadLists, cf \in BOOLEAN, tm \in TimeoutChoices :
        call_commit_configurations(p, pls, cf, tm)

PrecheckStep(p) ==
    \/ precheck_commit_configurations(p) /\ UNCHANGED notEngine
    \/ commit_connect(p) /\ UNCHANGED notEngine
    \/ commit_edit_config(p) /\ UNCHANGED notEngine
    \/ commit_validate(p) /\ UNCHANGED notEngine
    \/ commit_discard_changes(p) /\ UNCHANGED notEngine
    \/ commit_commit(p) /\ UNCHANGED notEngine
    \/ commit_disconnect(p) /\ UNCHANGED notEngine
    \/ Return(p) /\ UNCHANGED notEngine

NextPrecheck == \E p \in SeqProcs : PrecheckStep(p)

\* One caller committing rendered payloads.
SpecPrecheck == Init /\ [][NextPrecheck]_vars

----------------------------------------------------------------------------
(* C31 *)

\* C31: commit_configurations sends edit-config (or set) to a device only if
\* every entry of the payload's prechecks holds for that device: a session in
\* which edit-config or set was sent belongs to a payload whose capability
\* URIs and feature flags are all advertised by the target.
C31_PrechecksBeforeEdit ==
    \A p \in Procs : Running(p, "commit_configurations") =>
      \A k \in DOMAIN sess[p] :
        (HasRpc(sess[p][k], "edit_config") \/ HasRpc(sess[p][k], "set")) =>
            /\ "prechecks" \in DOMAIN call[p].payloads[sess[p][k].item]
            /\ PrechecksHold(call[p].payloads[sess[p][k].item])

----------------------------------------------------------------------------
(* C32 *)

\* the results of repository resolution: the branch without live transport
\* and the fallback of the except clause
RepositorySources == {"repository", "repository-fallback"}

\* the gap strings of a result that name model m
GapsNaming(r, m) == {g \in r.gaps : g.model = m}

\* C32: in a result of repository resolution the required models of the
\* (service type, vendor) pair are partitioned: a required model is either in
\* models_found and named in no gap string, or not in models_found and named
\* in exactly one gap string; models_found holds no model that is not required.
C32_RequiredPartitioned ==
    \A d \in DOMAIN tasks :
      (tasks[d].pc = "done" /\ tasks[d].result[1].source \in RepositorySources) =>
        LET r == tasks[d].result[1]
        IN /\ r.models_found \subseteq RequiredOf(d)
           /\ \A m \in RequiredOf(d) :
                \/ m \in r.models_found /\ GapsNaming(r, m) = {}
                \/ m \notin r.models_found /\ Cardinality(GapsNaming(r, m)) = 1

\* a fallback result with a model found and a model missing
C32_Witness ==
    \E d \in DOMAIN tasks :
      /\ tasks[d].pc = "done"
      /\ tasks[d].result[1].source = "repository-fallback"
      /\ tasks[d].result[1].models_found # {}
      /\ \E m \in RequiredOf(d) : m \notin tasks[d].result[1].models_found

\* a result of the branch without live transport, one model served from the
\* cache and every other one missing
C32_WitnessRepository ==
    \E d \in DOMAIN tasks :
      /\ tasks[d].pc = "done"
      /\ tasks[d].result[1].source = "repository"
      /\ tasks[d].result[1].models_found # {}
      /\ Cardinality(tasks[d].result[1].gaps) >= 1

----------------------------------------------------------------------------
(* C33 *)

\* the place in the inventory of the device a payload names as its target
PlaceOf(payload) == payload.target[2]

\* C33: for every payload process_intent got from create_mappings followed by
\* generate_payloads, the mapping entry the payload was rendered from (the
\* entry at the place of its target, whose prechecks the payload carries) has
\* the vendor of the inventory device named as the payload's target.
C33_VendorsAligned ==
    \A k \in DOMAIN pipe_locals.candidate_payloads :
      LET payload == pipe_locals.candidate_payloads[k]
          mapping == pipe_locals.mapping_table[PlaceOf(payload)]
      IN /\ payload.prechecks = generate_prechecks(mapping)
         /\ mapping.vendor = pipe_call.inventory[PlaceOf(payload)].vendor

----------------------------------------------------------------------------
(* C34 *)

\* the call that is registering entries has, for target t, a session in which
\* the confirmed commit RPC returned success
ConfirmedCommitIssued(p, t) ==
    \E k \in DOMAIN sess[p] :
      /\ sess[p][k].device = t
      /\ \E j \in DOMAIN sess[p][k].rpcs :
           /\ sess[p][k].rpcs[j].rpc = "commit"
           /\ sess[p][k].rpcs[j].arg = commit_arg(TRUE)
           /\ sess[p][k].rpcs[j].ok

\* C34: every entry of the Active Commit Registry belongs to a target on which
\* a confirmed-commit RPC was issued and returned success: its commit id is
\* the one made for a successful commit RPC, its payload is a NETCONF payload,
\* and an entry a running commit_configurations has added comes with such an
\* RPC in the sessions of that call.  No entry stems from a gNMI or RESTCONF
\* payload.
C34_EntriesFromConfirmedCommits ==
    \A t \in DOMAIN active_commits :
      /\ active_commits[t].commit_id.kind = "commit"
      /\ active_commits[t].payload.transport = "NETCONF"
      /\ \A p \in Procs :
           (Running(p, "commit_configurations") /\ ~SameEntry(t, reg0[p], active_commits))
             => ConfirmedCommitIssued(p, t)

----------------------------------------------------------------------------
(* C35 *)

\* C35: whenever commit_configurations reports success = false for a payload
\* whose edit-config had succeeded (the validate failed or the commit RPC
\* failed), discard-changes was issued in that session after the edit-config.
C35_PartialChangeUndone ==
    \A p \in Procs : Running(p, "commit_configurations") =>
      \A k \in DOMAIN sess[p] :
        LET s == sess[p][k]
        IN (RpcOk(s, "edit_config") /\ Reported(p, s) /\ ~results[p][s.item].success) =>
             \E j \in DOMAIN s.rpcs :
               /\ s.rpcs[j].rpc = "discard_changes"
               /\ \E i \in 1..(j - 1) : s.rpcs[i].rpc = "edit_config"

----------------------------------------------------------------------------
(* C36 *)

\* C36: the entry a confirm_commits removes when its confirming commit RPC has
\* returned is the entry it set out to confirm, the one the registry held for
\* the target when the call tested `target in self.active_commits`: an entry
\* that a concurrent commit_configurations registered for the target while
\* the RPC was in flight is not removed by the confirm.
C36_ConfirmRemovesOwnEntry ==
    [][\A p \in Procs :
         (call[p].op = "confirm_commits" /\ pc[p] = "commit" /\ pc'[p] = "disconnect") =>
           \A t \in DOMAIN active_commits \ DOMAIN active_commits' :
             /\ t \in DOMAIN reg0[p]
             /\ active_commits[t] = reg0[p][t]]_vars

----------------------------------------------------------------------------
(***************************************************************************)
(* The registry over time.  One caller commits, confirms, rolls back and   *)
(* sweeps on one device.  The caller makes its confirmed commits up to     *)
(* MaxTime; the clock runs on to LiveEnd, past the expiry of every entry   *)
(* registered by then.  Time advances; an operation that was started runs  *)
(* to its return (every network operation of the clients ends, by its      *)
(* answer or by its timeout); cleanup_expired_commits is called again and  *)
(* again.                                                                  *)
(***************************************************************************)

\* the clock of this specification stops after the latest expiry
LiveEnd == MaxTime + MaxTimeout + 1

live_commit_configurations(p) ==
    \E pls \in ConcPayloadLists, tm \in TimeoutChoices :
        /\ now < MaxTime
        /\ call_commit_configurations(p, pls, TRUE, tm)

\* the steps of an operation that is under way
LiveProgress(p) ==
    \/ commit_connect(p) /\ UNCHANGED notEngine
    \/ commit_edit_config(p) /\ UNCHANGED notEngine
    \/ commit_validate(p) /\ UNCHANGED notEngine
    \/ commit_discard_changes(p) /\ UNCHANGED notEngine
    \/ commit_commit(p) /\ UNCHANGED notEngine
    \/ commit_disconnect(p) /\ UNCHANGED notEngine
    \/ confirm_connect(p) /\ UNCHANGED notEngine
    \/ confirm_commit(p) /\ UNCHANGED notEngine
    \/ confirm_disconnect(p) /\ UNCHANGED notEngine
    \/ rollback_connect(p) /\ UNCHANGED notEngine
    \/ rollback_discard_changes(p) /\ UNCHANGED notEngine
    \/ rollback_disconnect(p) /\ UNCHANGED notEngine
    \/ Return(p) /\ UNCHANGED notEngine

LiveSweep(p) == cleanup_expired_commits(p) /\ UNCHANGED notEngine

\* time passes; a commit that is under way at MaxTime registers before the
\* clock goes on
LiveTick ==
    /\ now < LiveEnd
    /\ now >= MaxTime => \A p \in Procs : call[p].op # "commit_configurations"
    /\ now' = now + 1
    /\ UNCHANGED <<active_commits, call, pc, idx, results, pending, sess, reg0, swept>>
    /\ UNCHANGED notEngine

NextLive ==
    \/ \E p \in SeqProcs : live_commit_configurations(p) /\ UNCHANGED notEngine
    \/ \E p \in SeqProcs : conc_confirm_commits(p) /\ UNCHANGED notEngine
    \/ \E p \in SeqProcs : conc_rollback_configurations(p) /\ UNCHANGED notEngine
    \/ \E p \in SeqProcs : LiveProgress(p)
    \/ \E p \in SeqProcs : LiveSweep(p)
    \/ LiveTick

SpecLive ==
    /\ Init
    /\ [][NextLive]_vars
    /\ WF_vars(LiveTick)
    /\ WF_vars(\E p \in SeqProcs : LiveProgress(p))
    /\ SF_vars(\E p \in SeqProcs : LiveSweep(p))

----------------------------------------------------------------------------
(* C37 *)

\* the expiry timestamps an entry can have
Expiries == 0..LiveEnd

\* the registry holds an entry for target t that expires at x
Holds(t, x) == t \in DOMAIN active_commits /\ active_commits[t].timeout = x

\* C37: every registry entry is eventually removed: with time advancing and
\* cleanup_expired_commits called after the expiry, an entry made by a
\* confirmed commit leaves the registry, whether or not a confirm or a
\* rollback of its target ever succeeds.
C37_EntryEventuallyRemoved ==
    \A t \in Targets : \A x \in Expiries : Holds(t, x) ~> ~Holds(t, x)

\* an entry was swept after a confirm and a rollback of its target had failed
C37_Witness ==
    /\ ConcTarget \in swept
    /\ ConcTarget \notin DOMAIN active_commits
    /\ now > MaxTime

----------------------------------------------------------------------------
(* C38 *)

\* the validation operation of a transport on the device
ValidationOperation(transport) == IF transport = "GNMI" THEN "set" ELSE "validate"

\* C38: a ValidationResult with success = true of validate_configuration
\* belongs to a payload for which a session to the target was opened and the
\* transport's validation operation (validate for NETCONF, set for gNMI)
\* returned success in it.
C38_SuccessAfterDeviceCheck ==
    \A p \in Procs : Running(p, "validate_configuration") =>
      \A k \in 1..Len(results[p]) :
        results[p][k].success =>
          \E j \in DOMAIN sess[p] :
            /\ sess[p][j].item = k
            /\ sess[p][j].device = call[p].payloads[k].target
            /\ sess[p][j].connected
            /\ RpcOk(sess[p][j], ValidationOperation(call[p].payloads[k].transport))

----------------------------------------------------------------------------
(* C39 *)

\* the caller named the targets: the list was given and is not empty
ExplicitTargets(p) == call[p].device_targets.given /\ call[p].device_targets.list # <<>>

\* a session of the call was opened for target t
Contacted(p, t) == \E j \in DOMAIN sess[p] : sess[p][j].device = t

\* a result of the call is about target t
ResultFor(p, t) == \E j \in DOMAIN results[p] : results[p][j].device = t

\* confirm_commits and rollback_configurations with an empty or omitted list
\* go through the targets of the registry, each once, and contact each of them
C39_EmptyListIsRegistry ==
    \A p \in Procs :
      ((Running(p, "confirm_commits") \/ Running(p, "rollback_configurations"))
        /\ ~ExplicitTargets(p)) =>
          /\ Range(call[p].targets) = DOMAIN reg0[p]
          /\ Len(call[p].targets) = Cardinality(DOMAIN reg0[p])
          /\ pc[p] = "done" => \A t \in DOMAIN reg0[p] : Contacted(p, t) /\ ResultFor(p, t)

\* confirm_commits passes over an explicit target that has no registry entry
C39_ConfirmSkipsMissing ==
    \A p \in Procs : (Running(p, "confirm_commits") /\ ExplicitTargets(p)) =>
      /\ Range(call[p].targets) = Range(call[p].device_targets.list)
      /\ \A t \in Range(call[p].targets) \ DOMAIN reg0[p] :
           ~Contacted(p, t) /\ ~ResultFor(p, t)

\* the explicit targets without registry entry rollback_configurations is
\* through with, by place in the list
RolledBackMissing(p) ==
    {k \in 1..Len(results[p]) :
        Running(p, "rollback_configurations") /\ ExplicitTargets(p)
        /\ call[p].targets[k] \notin DOMAIN reg0[p]}

\* C39 as stated: an empty target list is treated like an omitted one and the
\* call acts on every target of the registry; confirm_commits contacts no
\* device and returns no result for an explicit target without registry entry;
\* rollback_configurations issues discard-changes to such a target and returns
\* a result for it.
C39_TargetsAsStated ==
    /\ C39_EmptyListIsRegistry
    /\ C39_ConfirmSkipsMissing
    /\ \A p \in Procs : \A k \in RolledBackMissing(p) :
         /\ k \in DOMAIN sess[p]
         /\ sess[p][k].device = call[p].targets[k]
         /\ HasRpc(sess[p][k], "discard_changes")
         /\ results[p][k].device = call[p].targets[k]

\* C39, amended: as above, but rollback_configurations opens a session to an
\* explicit target without registry entry and returns a result for it in
\* every case; it issues discard-changes in that session when the connection
\* was established, and when it was not, the result is the failure of the
\* connection.
C39_TargetsWhenConnected ==
    /\ C39_EmptyListIsRegistry
    /\ C39_ConfirmSkipsMissing
    /\ \A p \in Procs : \A k \in RolledBackMissing(p) :
         /\ k \in DOMAIN sess[p]
         /\ sess[p][k].device = call[p].targets[k]
         /\ results[p][k].device = call[p].targets[k]
         /\ IF sess[p][k].connected
            THEN HasRpc(sess[p][k], "discard_changes")
            ELSE /\ sess[p][k].rpcs = <<>>
                 /\ ~results[p][k].success
                 /\ results[p][k].error_message = "Rollback error"

\* a rollback of an explicit target without entry whose connection failed,
\* next to one that got its discard-changes
C39_Witness ==
    \E p \in Procs :
      /\ Returned(p, "rollback_configurations") /\ ExplicitTargets(p)
      /\ \E k \in RolledBackMissing(p) : ~sess[p][k].connected
      /\ \E k \in RolledBackMissing(p) : RpcOk(sess[p][k], "discard_changes")

\* a confirm with an explicitly empty list that went through a registry of
\* two targets
C39_WitnessEmptyList ==
    \E p \in Procs :
      /\ Returned(p, "confirm_commits")
      /\ call[p].device_targets.given /\ call[p].device_targets.list = <<>>
      /\ Cardinality(DOMAIN reg0[p]) = 2
      /\ Len(results[p]) = 2

\* a confirm of an explicit list that passed over a target without entry
C39_WitnessSkipped ==
    \E p \in Procs :
      /\ Returned(p, "confirm_commits") /\ ExplicitTargets(p)
      /\ Len(call[p].targets) = 2
      /\ call[p].targets[1] \notin DOMAIN reg0[p]
      /\ call[p].targets[2] \in DOMAIN reg0[p]
      /\ Len(results[p]) = 1

----------------------------------------------------------------------------
(* C40 *)

\* C40: for every device record, whatever its netconf_enabled, gnmi_enabled
\* and restconf_enabled flags, the transport recorded in the device's
\* ModelDiscoveryResult is the transport _determine_transport chooses for the
\* device's CandidatePayload.
C40_SameTransport ==
    \A d \in DOMAIN tasks :
      Done(d) => Result(d).transport = determine_transport(inventory[d])

====
